---- MODULE Spec2Model ----
(***************************************************************************)
(* A model of the travel-map application: the trips document kept by       *)
(* useTripsData, the photo store (Firestore documents + Storage blobs),    *)
(* the CountryPanel handlers that upload, delete and tag photos, and the   *)
(* face matcher.  Asynchronous handlers are split at their awaits where    *)
(* the interleaving matters (upload, delete, photo loads).                 *)
(***************************************************************************)
EXTENDS Integers, Sequences, FiniteSets, TLC

VARIABLES
    data,        \* useTripsData: the TripsJson state (null = TRUE before the load)
    tlast,       \* history: the last trips operation, its argument and pre-state
    photoDocs,   \* Firestore collection `photos`: the set of photo documents
    blobs,       \* Firebase Storage: ids of the blobs under photos/
    createdLog,  \* history: names of the files whose setDoc in savePhoto succeeded
    photos,      \* CountryPanel: the in-memory photo list (useState)
    trip,        \* CountryPanel: iso2 of the displayed trip ("null" when closed)
    loads,       \* getPhotosForCountry calls in flight (load-photos effect)
    up,          \* handleFileSelect: the running upload batch
    del,         \* handleDeletePhoto: the running deletion
    dlast,       \* history: the last finished deletion
    alerts,      \* number of alert() dialogs shown
    nextId,      \* source of fresh photo ids / createdAt timestamps
    family,      \* Firestore collection `familyMembers`
    tag,         \* CountryPanel: active photo, familyMembers state, last tagging call
    mq,          \* a matchFaces call: what it read and what it returned
    call,        \* a call of a pure function: its name, input and result
    boot,        \* useTripsData load effect: its position and flags, the store's trips document
    gate,        \* PasswordGate: configuration, session flag, component state
    models,      \* loadModels: the modelsLoaded flag and the calls made
    previews     \* usePhotoPreviews of Index: byIso and the refresh of the mount effect

tripsVars == <<data, tlast>>
storeVars == <<photoDocs, blobs, createdLog, nextId>>
panelVars == <<photos, trip, loads, up, del, dlast, alerts>>
tagVars   == <<family, tag, mq>>
effVars   == <<boot, gate, models, previews>>
auxVars   == <<call, effVars>>
vars == <<data, tlast, photoDocs, blobs, createdLog, nextId,
          photos, trip, loads, up, del, dlast, alerts, family, tag, mq,
          call, boot, gate, models, previews>>

Null == "null"

(***************************************************************************)
(* Generic sequence helpers                                                *)
(***************************************************************************)
Range(s) == {s[i] : i \in 1..Len(s)}

CountIf(s, P(_)) == Cardinality({i \in 1..Len(s) : P(s[i])})

(***************************************************************************)
(* Strings as character sequences: normalizeIso2 = trim + toUpperCase      *)
(***************************************************************************)
Upper(ch) ==
    CASE ch = "a" -> "A" [] ch = "d" -> "D" [] ch = "e" -> "E"
      [] ch = "f" -> "F" [] ch = "j" -> "J" [] ch = "p" -> "P"
      [] ch = "r" -> "R" [] ch = "t" -> "T" [] OTHER -> ch

RECURSIVE TrimLeft(_)
TrimLeft(s) == IF s # <<>> /\ Head(s) = " " THEN TrimLeft(Tail(s)) ELSE s

RECURSIVE TrimRight(_)
TrimRight(s) ==
    IF s # <<>> /\ s[Len(s)] = " " THEN TrimRight(SubSeq(s, 1, Len(s) - 1)) ELSE s

normalizeIso2(v) == [i \in 1..Len(TrimRight(TrimLeft(v))) |->
                        Upper(TrimRight(TrimLeft(v))[i])]

(***************************************************************************)
(* useTripsData: the trips document and its three mutators                 *)
(***************************************************************************)
MaxVisited == 4

\* An excerpt of ALL_COUNTRIES, in source order (alphabetical by name).
ALL_COUNTRIES == <<
    [name |-> "Austria", iso2 |-> <<"A", "T">>, continent |-> "Europe"],
    [name |-> "France",  iso2 |-> <<"F", "R">>, continent |-> "Europe"],
    [name |-> "Germany", iso2 |-> <<"D", "E">>, continent |-> "Europe"] >>

\* String.prototype.localeCompare on the country names that occur in the model.
NameOrder == <<"Austria", "France", "Germany", "Japan">>
NameRank(name) == CHOOSE i \in 1..Len(NameOrder) : NameOrder[i] = name
localeCompare(a, b) == NameRank(a) - NameRank(b)

Trip(name, code, cont) ==
    [countryName |-> name, iso2 |-> code, continent |-> cont,
     year |-> "", cities |-> <<>>, notes |-> "", photos |-> <<>>]

\* Array.prototype.sort with (a, b) => a.countryName.localeCompare(b.countryName);
\* the sort is stable, so an element goes behind the equal ones already placed.
RECURSIVE InsertByName(_, _)
InsertByName(sorted, t) ==
    IF sorted = <<>> THEN <<t>>
    ELSE IF localeCompare(t.countryName, Head(sorted).countryName) < 0
         THEN <<t>> \o sorted
         ELSE <<Head(sorted)>> \o InsertByName(Tail(sorted), t)

RECURSIVE SortByName(_)
SortByName(s) ==
    IF s = <<>> THEN <<>>
    ELSE InsertByName(SortByName(SubSeq(s, 1, Len(s) - 1)), s[Len(s)])

HasCode(v, n) == \E i \in 1..Len(v) : normalizeIso2(v[i].iso2) = n

\* A plausible slip: the duplicate test compares the raw strings.
addCountryRawCompare(v, iso2) ==
    LET n == normalizeIso2(iso2)
        found == {i \in 1..Len(ALL_COUNTRIES) : ALL_COUNTRIES[i].iso2 = n}
    IN  IF n = <<>> THEN v
        ELSE IF \E i \in 1..Len(v) : v[i].iso2 = iso2 THEN v
        ELSE IF found = {} THEN v
        ELSE LET info == ALL_COUNTRIES[CHOOSE i \in found : \A j \in found : i <= j]
             IN  SortByName(Append(v, Trip(info.name, info.iso2, info.continent)))

\* addCountry: the value of data.visited it leaves behind (v when it returns early).
addCountry(v, iso2) ==
    LET n == normalizeIso2(iso2)
        found == {i \in 1..Len(ALL_COUNTRIES) : ALL_COUNTRIES[i].iso2 = n}
    IN  IF n = <<>> THEN v
        ELSE IF HasCode(v, n) THEN v
        ELSE IF found = {} THEN v
        ELSE LET info == ALL_COUNTRIES[CHOOSE i \in found : \A j \in found : i <= j]
             IN  SortByName(Append(v, Trip(info.name, info.iso2, info.continent)))

removeCountry(v, iso2) ==
    LET n == normalizeIso2(iso2)
    IN  SelectSeq(v, LAMBDA t : normalizeIso2(t.iso2) # n)

\* { ...t, ...updates }: the fields of updates replace those of t.
Spread(t, updates) ==
    [f \in DOMAIN t |-> IF f \in DOMAIN updates THEN updates[f] ELSE t[f]]

updateTrip(v, iso2, updates) ==
    LET n == normalizeIso2(iso2)
    IN  [i \in 1..Len(v) |->
            IF normalizeIso2(v[i].iso2) = n THEN Spread(v[i], updates) ELSE v[i]]

\* Arguments the three mutators are called with: codes as typed strings, and
\* Partial<TripData> values.
CodeInputs == { <<"F", "R">>, <<" ", "f", "r", " ">>, <<"D", "E">>,
                <<"A", "T">>, <<"J", "P">>, <<>> }
UpdateInputs == { [notes |-> "n"], [iso2 |-> <<"F", "R">>] }

\* Trips documents the load may deliver (cloud document or bundled seed); the
\* entries of each have pairwise distinct normalized codes.
InitialVisited == {
    <<>>,
    << Trip("Japan", <<"J", "P">>, "Asia") >>,
    << Trip("France", <<"f", "r">>, "Europe"), Trip("Japan", <<"J", "P">>, "Asia") >> }

\* useState<TripsJson | null>(null)
NullData == [null |-> TRUE, visited |-> <<>>]

TripsInit ==
    /\ data = NullData
    /\ tlast = [op |-> "none", arg |-> <<>>, pre |-> <<>>]

\* The load effect delivers a document (refined where the load itself is studied).
LoadTrips ==
    /\ data.null
    /\ \E v \in InitialVisited : data' = [null |-> FALSE, visited |-> v]
    /\ tlast' = [op |-> "load", arg |-> <<>>, pre |-> <<>>]
    /\ UNCHANGED <<storeVars, panelVars, tagVars, auxVars>>

AddCountry ==
    \E iso2 \in CodeInputs :
        /\ ~data.null
        /\ Len(data.visited) < MaxVisited
        /\ data' = [data EXCEPT !.visited = addCountry(data.visited, iso2)]
        /\ tlast' = [op |-> "addCountry", arg |-> iso2, pre |-> data.visited]
        /\ UNCHANGED <<storeVars, panelVars, tagVars, auxVars>>

RemoveCountry ==
    \E iso2 \in CodeInputs :
        /\ ~data.null
        /\ data' = [data EXCEPT !.visited = removeCountry(data.visited, iso2)]
        /\ tlast' = [op |-> "removeCountry", arg |-> iso2, pre |-> data.visited]
        /\ UNCHANGED <<storeVars, panelVars, tagVars, auxVars>>

UpdateTrip ==
    \E iso2 \in CodeInputs, updates \in UpdateInputs :
        /\ ~data.null
        /\ data' = [data EXCEPT !.visited = updateTrip(data.visited, iso2, updates)]
        /\ tlast' = [op |-> "updateTrip", arg |-> iso2, pre |-> data.visited]
        /\ UNCHANGED <<storeVars, panelVars, tagVars, auxVars>>

\* A mutator called before the document is loaded returns at `if (!data) return`.
CallBeforeLoad ==
    /\ data.null
    /\ tlast.op = "none"
    /\ tlast' = [op |-> "ignored", arg |-> <<>>, pre |-> <<>>]
    /\ UNCHANGED <<data, storeVars, panelVars, tagVars, auxVars>>


(***************************************************************************)
(* Face matching (lib/faceRecognition.ts)                                  *)
(*                                                                         *)
(* A descriptor is modelled as a point on a line, in hundredths, and the   *)
(* euclidean distance of the library as the absolute difference.           *)
(***************************************************************************)
NoVal == "undefined"          \* an absent / undefined optional field
NoConf == -1                  \* an absent confidence

MATCH_THRESHOLD == 55         \* 0.55, in hundredths

\* JSON.stringify(Array.from(descriptor)) and new Float32Array(JSON.parse(s)):
\* a string is the bracketed value; a string whose bracket is missing does not parse.
ToJson(d) == [open |-> TRUE, val |-> d, close |-> TRUE]
Malformed(d) == [open |-> TRUE, val |-> d, close |-> FALSE]
ParseOk(s) == s.open /\ s.close
FromJson(s) == s.val

Abs(x) == IF x < 0 THEN -x ELSE x
Distance(a, b) == Abs(a - b)

RECURSIVE SumDist(_, _)
SumDist(ds, q) == IF ds = <<>> THEN 0 ELSE Distance(Head(ds), q) + SumDist(Tail(ds), q)

\* FaceMatcher.computeMeanDistance (face-api.js), rounded down to hundredths
MeanDistance(ds, q) == SumDist(ds, q) \div Len(ds)

RECURSIVE SetToSeq(_)
SetToSeq(S) ==
    IF S = {} THEN <<>>
    ELSE LET x == CHOOSE y \in S : TRUE IN <<x>> \o SetToSeq(S \ {x})

\* getMemberDescriptors throws when a descriptorStrings entry does not parse.
getMemberDescriptorsThrows(member) ==
    \E i \in 1..Len(member.descriptorStrings) : ~ParseOk(member.descriptorStrings[i])

\* A plausible slip: the JSON-string format is not read, only the legacy ones.
getMemberDescriptorsLegacyOnly(member) ==
    IF Len(member.descriptors) > 0 THEN member.descriptors
    ELSE member.descriptor

\* getMemberDescriptors: the first non-empty of the three stored formats.  The
\* optional single `descriptor` is kept as a sequence of at most one element.
getMemberDescriptors(member) ==
    IF Len(member.descriptorStrings) > 0
    THEN [i \in 1..Len(member.descriptorStrings) |->
             FromJson(member.descriptorStrings[i])]
    ELSE IF Len(member.descriptors) > 0 THEN member.descriptors
    ELSE member.descriptor

\* getTrainingDescriptorsFromTaggedPhotos, for one member: the descriptors of the
\* faces assigned to it in `docs` (the getAllPhotos result); malformed ones are skipped.
TrainingDescriptors(docs, memberId) ==
    LET items == { <<d.id, i>> : d \in docs, i \in 1..3 }
        good == { it \in items :
                    \E d \in docs :
                        /\ d.id = it[1]
                        /\ it[2] <= Len(d.detectedFaces)
                        /\ d.detectedFaces[it[2]].assignedMemberId = memberId
                        /\ ParseOk(d.detectedFaces[it[2]].descriptorString) }
        descOf(it) == LET d == CHOOSE d \in docs : d.id = it[1]
                      IN  FromJson(d.detectedFaces[it[2]].descriptorString)
        order == SetToSeq(good)
    IN  [k \in 1..Len(order) |-> descOf(order[k])]

\* A plausible slip: the member's own descriptors are preferred to the tagged ones.
LabeledDescriptorsOwnFirst(members, docs) ==
    LET combined(m) == IF Len(getMemberDescriptors(m)) > 0
                       THEN getMemberDescriptors(m)
                       ELSE TrainingDescriptors(docs, m.id)
        all == [i \in 1..Len(members) |->
                   [label |-> members[i].id, descriptors |-> combined(members[i])]]
    IN  SelectSeq(all, LAMBDA ld : Len(ld.descriptors) > 0)

\* The labeled descriptors of matchFaces: per member (in getFamilyMembers order)
\* the descriptors from tagged photos if any, the member's own otherwise.
LabeledDescriptors(members, docs) ==
    LET combined(m) == IF Len(TrainingDescriptors(docs, m.id)) > 0
                       THEN TrainingDescriptors(docs, m.id)
                       ELSE getMemberDescriptors(m)
        all == [i \in 1..Len(members) |->
                   [label |-> members[i].id, descriptors |-> combined(members[i])]]
    IN  SelectSeq(all, LAMBDA ld : Len(ld.descriptors) > 0)

\* `fallback` is computed for every member, whether it is used or not.
LabelingThrows(members, docs) ==
    \E i \in 1..Len(members) : getMemberDescriptorsThrows(members[i])

\* FaceMatcher.findBestMatch (face-api.js): the label of least mean distance, the
\* later label on a tie; "unknown" unless that distance is below the threshold.
FaceMatchOf(ld, q) == [label |-> ld.label, distance |-> MeanDistance(ld.descriptors, q)]

RECURSIVE BestOf(_, _, _)
BestOf(lds, q, best) ==
    IF lds = <<>> THEN best
    ELSE BestOf(Tail(lds), q,
                IF best.distance < FaceMatchOf(Head(lds), q).distance
                THEN best ELSE FaceMatchOf(Head(lds), q))

findBestMatch(lds, q) ==
    LET best == BestOf(Tail(lds), q, FaceMatchOf(Head(lds), q))
    IN  IF best.distance < MATCH_THRESHOLD THEN best
        ELSE [label |-> "unknown", distance |-> best.distance]

\* A plausible slip: the early return for an empty labeled set is missing, and
\* the matcher with nothing to compare against reports the first member.
matchFacesNoEarlyReturn(members, docs, faces) ==
    IF members = <<>> THEN faces
    ELSE LET lds == LabeledDescriptors(members, docs)
         IN  IF lds = <<>>
             THEN [i \in 1..Len(faces) |->
                    [faces[i] EXCEPT !.matchedMember = members[1].id, !.confidence = 0]]
             ELSE [i \in 1..Len(faces) |->
                    LET match == findBestMatch(lds, faces[i].descriptor)
                        known == {j \in 1..Len(members) : members[j].id = match.label}
                    IN  IF match.label # "unknown"
                        THEN [faces[i] EXCEPT
                                !.matchedMember = IF known = {} THEN NoVal ELSE match.label,
                                !.confidence = 100 - match.distance]
                        ELSE faces[i]]

\* matchFaces rejects when building the labeled descriptors throws.
matchFacesThrows(members, docs) == members # <<>> /\ LabelingThrows(members, docs)

\* matchFaces(detectedFaces): `members` is what its getFamilyMembers call returned
\* and `docs` what getAllPhotos returned (both are empty when the read failed).
matchFaces(members, docs, faces) ==
    IF members = <<>> THEN faces
    ELSE LET lds == LabeledDescriptors(members, docs)
         IN  IF lds = <<>> THEN faces
             ELSE [i \in 1..Len(faces) |->
                    LET match == findBestMatch(lds, faces[i].descriptor)
                        known == {j \in 1..Len(members) : members[j].id = match.label}
                    IN  IF match.label # "unknown"
                        THEN [faces[i] EXCEPT
                                !.matchedMember = IF known = {} THEN NoVal ELSE match.label,
                                !.confidence = 100 - match.distance]
                        ELSE faces[i]]

\* A DetectedFace as detectFaces returns it.
Detection(box, descriptor) ==
    [box |-> box, descriptor |-> descriptor, matchedMember |-> NoVal, confidence |-> NoConf]

Member(id, name, strings) ==
    [id |-> id, name |-> name, descriptorStrings |-> strings,
     descriptors |-> <<>>, descriptor |-> <<>>]


(***************************************************************************)
(* Photo previews of the map (usePhotoPreviews, types/trips.ts 33-107)     *)
(*                                                                         *)
(* byIso is a function from the normalized codes that have an entry to     *)
(* their PreviewEntry.                                                     *)
(***************************************************************************)
MaxPreviewPhotos == 3

PreviewEntry(url, createdAt, count) ==
    [url |-> url, createdAt |-> createdAt, count |-> count]

EmptyPreviews == [k \in {} |-> PreviewEntry("", 0, 0)]

\* { ...prev, [iso]: entry }
WithEntry(prev, iso, entry) ==
    [k \in DOMAIN prev \cup {iso} |-> IF k = iso THEN entry ELSE prev[k]]

\* One iteration of the loop of rebuildFromPhotos: the preview changes when
\* the photo is strictly later than the one kept.
rebuildStep(next, p) ==
    LET iso == normalizeIso2(p.countryIso)
    IN IF iso = <<>> THEN next
       ELSE IF iso \notin DOMAIN next
       THEN WithEntry(next, iso, PreviewEntry(p.url, p.createdAt, 1))
       ELSE LET current == next[iso]
            IN WithEntry(next, iso,
                  IF p.createdAt > current.createdAt
                  THEN PreviewEntry(p.url, p.createdAt, current.count + 1)
                  ELSE PreviewEntry(current.url, current.createdAt,
                                    current.count + 1))

RECURSIVE rebuildFrom(_, _)
rebuildFrom(next, ps) ==
    IF ps = <<>> THEN next ELSE rebuildFrom(rebuildStep(next, Head(ps)), Tail(ps))

rebuildFromPhotos(ps) == rebuildFrom(EmptyPreviews, ps)

\* registerPhoto: the preview changes when the photo is not earlier than the
\* one kept.
registerPhoto(prev, photo) ==
    LET iso == normalizeIso2(photo.countryIso)
    IN IF iso = <<>> THEN prev
       ELSE IF iso \notin DOMAIN prev
       THEN WithEntry(prev, iso, PreviewEntry(photo.url, photo.createdAt, 1))
       ELSE LET current == prev[iso]
            IN WithEntry(prev, iso,
                  IF photo.createdAt >= current.createdAt
                  THEN PreviewEntry(photo.url, photo.createdAt, current.count + 1)
                  ELSE PreviewEntry(current.url, current.createdAt,
                                    current.count + 1))

\* The photos of the store: the i-th has the url i; createdAt is Date.now()
\* at its save, which two saves can share.
PreviewPhoto(i, iso, createdAt) ==
    [url |-> i, countryIso |-> iso, createdAt |-> createdAt]

\* The panel's photo as usePhotoPreviews reads it: the url is that of the blob
\* of the photo id, the country code is the string of the trip.
CodeChars(c) ==
    CASE c = "FR" -> <<"F", "R">>
      [] c = "DE" -> <<"D", "E">>
      [] OTHER -> <<>>

PreviewOfPhoto(p) == PreviewPhoto(p.id, CodeChars(p.countryIso), p.createdAt)

\* The mount effect of usePhotoPreviews has run and nothing is registered.
PreviewsIdle == previews = [byIso |-> EmptyPreviews, pc |-> "done", got |-> <<>>]

(***************************************************************************)
(* The photo store (lib/storage.ts) and CountryPanel's upload handler      *)
(***************************************************************************)
MaxFiles  == 2     \* files in one upload batch
MaxPhotos == 3     \* photo ids generated in one run
MaxLoads  == 2     \* getPhotosForCountry calls in flight together

Countries == {"FR", "DE"}

\* A DetectedFaceData entry; the thumbnail is a function of the image and the box.
FaceData(id, box, descriptor, suggested, suggestedName, conf, assigned, assignedName) ==
    [id |-> id, box |-> box, descriptorString |-> ToJson(descriptor),
     suggestedMemberId |-> suggested, suggestedMemberName |-> suggestedName,
     confidence |-> conf,
     assignedMemberId |-> assigned, assignedMemberName |-> assignedName]

FaceTagOf(memberId, memberName, box, conf) ==
    [memberId |-> memberId, memberName |-> memberName, box |-> box, confidence |-> conf]

NoBox == 0     \* the box { x: 0, y: 0, width: 0, height: 0 }

NameOf(members, id) ==
    IF \E i \in 1..Len(members) : members[i].id = id
    THEN members[CHOOSE i \in 1..Len(members) : members[i].id = id].name
    ELSE NoVal

\* peopleCount: max(detected faces, distinct tagged member ids)
peopleCountAtLeastOne(photo) ==
    LET detected == Len(photo.detectedFaces)
        taggedUnique == Cardinality({photo.faceTags[i].memberId : i \in 1..Len(photo.faceTags)})
    IN  IF detected > taggedUnique
        THEN detected ELSE IF taggedUnique > 1 THEN taggedUnique ELSE 1

peopleCount(photo) ==
    LET detected == Len(photo.detectedFaces)
        taggedUnique == Cardinality({photo.faceTags[i].memberId : i \in 1..Len(photo.faceTags)})
    IN  IF detected > taggedUnique THEN detected ELSE taggedUnique

\* The collage badge: `${peopleCount(photo)} ppl` or the empty string.
Badge(photo) == IF peopleCount(photo) > 0 THEN <<peopleCount(photo), "ppl">> ELSE <<>>

\* handleFileSelect, lines 200-262: the face data of one file.
\*   members1 : result of the handler's getFamilyMembers call
\*   members2 : result of the getFamilyMembers call inside matchFaces
\*   docs     : result of getAllPhotos inside matchFaces
\*   file.det : "throws" when the image load or detectFaces rejects
\*   threw    : the step whose rejection the catch of line 256 took, if any
FaceDataOfFaces(faces) ==
    [i \in 1..Len(faces) |->
        FaceData(i, faces[i].box, faces[i].descriptor, NoVal, NoVal, NoConf, NoVal, NoVal)]

FaceDataOfMatched(members, matched) ==
    [i \in 1..Len(matched) |->
        FaceData(i, matched[i].box, matched[i].descriptor,
                 matched[i].matchedMember, NameOf(members, matched[i].matchedMember),
                 matched[i].confidence,
                 matched[i].matchedMember, NameOf(members, matched[i].matchedMember))]

FaceTagsOfMatched(members, matched) ==
    LET hit == SelectSeq(matched, LAMBDA f : f.matchedMember # NoVal)
    IN  [i \in 1..Len(hit) |->
            FaceTagOf(hit[i].matchedMember, NameOf(members, hit[i].matchedMember),
                      hit[i].box, hit[i].confidence)]

UploadFaceData(file, members1, members2, docs) ==
    IF file.det = "throws"
    THEN [faceTags |-> <<>>, detectedFaces |-> <<>>, threw |-> "detect"]
    ELSE IF Len(members1) > 0 /\ Len(file.faces) > 0
         THEN IF matchFacesThrows(members2, docs)
              THEN [faceTags |-> <<>>, detectedFaces |-> FaceDataOfFaces(file.faces),
                    threw |-> "match"]
              ELSE LET matched == matchFaces(members2, docs, file.faces)
                   IN  [faceTags |-> FaceTagsOfMatched(members2, matched),
                        detectedFaces |-> FaceDataOfMatched(members2, matched),
                        threw |-> "none"]
         ELSE [faceTags |-> <<>>, detectedFaces |-> FaceDataOfFaces(file.faces),
               threw |-> "none"]

\* Files a batch may hold: `image` is file.type.startsWith('image/').
FileKinds == {
    [image |-> FALSE, det |-> "ok", faces |-> <<>>],
    [image |-> TRUE,  det |-> "ok", faces |-> <<>>],
    [image |-> TRUE,  det |-> "throws", faces |-> <<>>],
    [image |-> TRUE,  det |-> "ok", faces |-> <<Detection(1, 0)>>],
    [image |-> TRUE,  det |-> "ok", faces |-> <<Detection(1, 0), Detection(2, 100)>>],
    [image |-> TRUE,  det |-> "ok", faces |-> <<Detection(1, 20), Detection(2, 40)>>] }

Batches == UNION { [1..n -> FileKinds] : n \in 1..MaxFiles }

\* Batches of plain images without faces, where only the store traffic matters.
PlainBatches == { <<[image |-> TRUE, det |-> "ok", faces |-> <<>>]>> }

\* The familyMembers collection as getFamilyMembers returns it (sorted by name).
Families == { <<>>, << Member("m1", "Ann", <<ToJson(30)>>) >>,
              << Member("m1", "Ann", <<Malformed(30)>>) >> }

\* getFamilyMembers and getAllPhotos return [] when the read fails.
MembersRead == { family, <<>> }
PhotosRead  == { photoDocs, {} }

\* index of the first image file at or behind i, Len + 1 when there is none
NextImage(files, i) ==
    IF \E j \in i..Len(files) : files[j].image
    THEN CHOOSE j \in i..Len(files) :
            files[j].image /\ \A k \in i..(j - 1) : ~files[k].image
    ELSE Len(files) + 1

IdleUpload ==
    [pc |-> "idle", country |-> Null, files |-> <<>>, i |-> 0, outcome |-> <<>>,
     attempt |-> <<>>, faceTags |-> <<>>, detectedFaces |-> <<>>, threw |-> "none"]

\* handleFileSelect up to the first await: the batch is taken for the displayed trip.
StartUpload(batches) ==
    \E files \in batches :
        /\ up.pc \in {"idle", "done"}          \* the input is disabled while uploading
        /\ trip # Null
        /\ nextId + Len(files) <= MaxPhotos + 1
        /\ up' = [pc |-> IF NextImage(files, 1) > Len(files) THEN "done" ELSE "detect",
                  country |-> trip, files |-> files, i |-> NextImage(files, 1),
                  outcome |-> [j \in 1..Len(files) |->
                                  IF files[j].image THEN "pending" ELSE "skipped"],
                  attempt |-> [j \in 1..Len(files) |-> 0],
                  faceTags |-> <<>>, detectedFaces |-> <<>>, threw |-> "none"]
        /\ createdLog' = <<>>
        /\ UNCHANGED <<photoDocs, blobs, nextId, photos, trip, loads, del, dlast, alerts, tripsVars, tagVars, auxVars>>

\* convertToJpegIfNeeded and the face-detection try block of the current file
UpDetect ==
    /\ up.pc = "detect"
    /\ \E members1 \in MembersRead, members2 \in MembersRead, docs \in PhotosRead :
         LET fd == UploadFaceData(up.files[up.i], members1, members2, docs)
         IN  up' = [up EXCEPT !.pc = "upload", !.faceTags = fd.faceTags,
                              !.detectedFaces = fd.detectedFaces, !.threw = fd.threw]
    /\ UNCHANGED <<storeVars, photos, trip, loads, del, dlast, alerts, tripsVars, tagVars, auxVars>>

\* the catch of handleFileSelect: one alert, the rest of the batch is not processed
UploadFailed ==
    [up EXCEPT !.pc = "done", !.outcome[up.i] = "failed", !.attempt[up.i] = nextId]

\* savePhoto: the id is generated, uploadBytes and getDownloadURL
UpUploadBytes ==
    /\ up.pc = "upload"
    /\ nextId' = nextId + 1
    /\ \/ /\ blobs' = blobs \cup {nextId}
          /\ up' = [up EXCEPT !.pc = "setdoc", !.attempt[up.i] = nextId]
          /\ UNCHANGED alerts
       \/ /\ up' = UploadFailed
          /\ alerts' = alerts + 1
          /\ UNCHANGED blobs
    /\ UNCHANGED <<photoDocs, createdLog, photos, trip, loads, del, dlast, tripsVars, tagVars, auxVars>>

NewPhoto(id, country, name, faceTags, detectedFaces) ==
    [id |-> id, countryIso |-> country, name |-> name, caption |-> "",
     faceTags |-> faceTags, detectedFaces |-> detectedFaces, createdAt |-> id]

\* A plausible slip: the document is written before the failure is noticed.
UpSetDocFailureLeavesDoc ==
    /\ up.pc = "setdoc"
    /\ LET id == up.attempt[up.i]
           photo == NewPhoto(id, up.country, up.i, up.faceTags, up.detectedFaces)
           next == NextImage(up.files, up.i + 1)
       IN  \/ /\ photoDocs' = {d \in photoDocs : d.id # id} \cup {photo}
              /\ createdLog' = Append(createdLog,
                                      [name |-> up.i, file |-> up.files[up.i], photo |-> photo,
                                       threw |-> up.threw])
              /\ photos' = <<photo>> \o photos
              /\ previews' = [previews EXCEPT
                                 !.byIso = registerPhoto(@, PreviewOfPhoto(photo))]
              /\ up' = [up EXCEPT !.pc = IF next > Len(up.files) THEN "done" ELSE "detect",
                                   !.outcome[up.i] = "saved", !.i = next,
                                   !.faceTags = <<>>, !.detectedFaces = <<>>,
                                   !.threw = "none"]
              /\ UNCHANGED alerts
           \/ /\ photoDocs' = {d \in photoDocs : d.id # id} \cup {photo}
              /\ up' = [up EXCEPT !.pc = "done", !.outcome[up.i] = "failed"]
              /\ alerts' = alerts + 1
              /\ UNCHANGED <<createdLog, photos, previews>>
    /\ UNCHANGED <<blobs, nextId, trip, loads, del, dlast, tripsVars, tagVars,
                   call, boot, gate, models>>

\* savePhoto: setDoc of the metadata; then setPhotos(prev => [photo, ...prev])
\* and onPhotoUploaded(photo), which is registerPhoto of Index
UpSetDoc ==
    /\ up.pc = "setdoc"
    /\ LET id == up.attempt[up.i]
           photo == NewPhoto(id, up.country, up.i, up.faceTags, up.detectedFaces)
           next == NextImage(up.files, up.i + 1)
       IN  \/ /\ photoDocs' = {d \in photoDocs : d.id # id} \cup {photo}
              /\ createdLog' = Append(createdLog,
                                      [name |-> up.i, file |-> up.files[up.i], photo |-> photo,
                                       threw |-> up.threw])
              /\ photos' = <<photo>> \o photos
              /\ previews' = [previews EXCEPT
                                 !.byIso = registerPhoto(@, PreviewOfPhoto(photo))]
              /\ up' = [up EXCEPT !.pc = IF next > Len(up.files) THEN "done" ELSE "detect",
                                   !.outcome[up.i] = "saved", !.i = next,
                                   !.faceTags = <<>>, !.detectedFaces = <<>>,
                                   !.threw = "none"]
              /\ UNCHANGED alerts
           \/ /\ up' = [up EXCEPT !.pc = "done", !.outcome[up.i] = "failed"]
              /\ alerts' = alerts + 1
              /\ UNCHANGED <<photoDocs, createdLog, photos, previews>>
    /\ UNCHANGED <<blobs, nextId, trip, loads, del, dlast, tripsVars, tagVars,
                   call, boot, gate, models>>


(***************************************************************************)
(* Loading and deleting photos                                             *)
(***************************************************************************)
MaxDeletes == 2    \* handleDeletePhoto calls in one run
MaxAlerts  == 2    \* alerts shown in one run of the tagging handlers

Ids(list) == {list[i].id : i \in 1..Len(list)}

\* Array.prototype.sort by createdAt; ascending in getPhotosForCountry and
\* descending in the panel's load effect (createdAt values are distinct).
RECURSIVE SortAsc(_)
SortAsc(S) ==
    IF S = {} THEN <<>>
    ELSE LET first == CHOOSE d \in S : \A e \in S : d.createdAt <= e.createdAt
         IN  <<first>> \o SortAsc(S \ {first})

Reverse(list) == [i \in 1..Len(list) |-> list[Len(list) + 1 - i]]

\* getPhotosForCountry on the documents `docs`
getPhotosForCountry(docs, countryIso) ==
    SortAsc({d \in docs : d.countryIso = countryIso})

NoSnap == << [pending |-> TRUE] >>

\* The displayed trip changes: the load effect issues getPhotosForCountry.
SelectCountry ==
    \E c \in Countries :
        /\ c # trip
        /\ Cardinality(loads) < MaxLoads
        /\ trip' = c
        /\ loads' = loads \cup {[iso |-> c, snap |-> NoSnap]}
        /\ UNCHANGED <<storeVars, photos, up, del, dlast, alerts, tripsVars, tagVars, auxVars>>

\* handleClosePanel: selectedIso becomes null; nothing is loaded or cleared.
ClosePanel ==
    /\ trip # Null
    /\ trip' = Null
    /\ UNCHANGED <<storeVars, photos, loads, up, del, dlast, alerts, tripsVars, tagVars, auxVars>>

\* The store answers a query in flight (an empty list when getDocs fails).
ServerQuery ==
    \E l \in loads :
        /\ l.snap = NoSnap
        /\ \E answer \in {getPhotosForCountry(photoDocs, l.iso), <<>>} :
             loads' = (loads \ {l}) \cup {[iso |-> l.iso, snap |-> answer]}
        /\ UNCHANGED <<storeVars, photos, trip, up, del, dlast, alerts, tripsVars, tagVars, auxVars>>

\* .then(loadedPhotos => setPhotos(loadedPhotos.sort(newest first)))
LoadApply ==
    \E l \in loads :
        /\ l.snap # NoSnap
        /\ photos' = Reverse(l.snap)
        /\ loads' = loads \ {l}
        /\ UNCHANGED <<storeVars, trip, up, del, dlast, alerts, tripsVars, tagVars, auxVars>>

IdleDelete == [pc |-> "idle", id |-> 0, docBefore |-> FALSE, n |-> 0]
NoDeletion == [id |-> 0, result |-> "none", docBefore |-> FALSE, raised |-> FALSE,
               done |-> {}]

\* The delete button of the photo view: handleDeletePhoto(activePhoto.id)
DeleteStart ==
    \E id \in Ids(photos) :
        /\ del.pc = "idle"
        /\ trip # Null
        /\ del.n < MaxDeletes
        /\ del' = [pc |-> "blob", id |-> id,
                   docBefore |-> \E d \in photoDocs : d.id = id, n |-> del.n + 1]
        /\ UNCHANGED <<storeVars, photos, trip, loads, up, dlast, alerts, tripsVars, tagVars, auxVars>>

\* A plausible slip: a failed blob deletion is swallowed and the document goes too.
DeleteObjectSwallowsFailure ==
    /\ del.pc = "blob"
    /\ \/ /\ del.id \in blobs
          /\ blobs' = blobs \ {del.id}
          /\ del' = [del EXCEPT !.pc = "doc"]
          /\ UNCHANGED <<photoDocs, dlast, alerts>>
       \/ /\ del' = [del EXCEPT !.pc = "idle"]
          /\ photoDocs' = {d \in photoDocs : d.id # del.id}
          /\ dlast' = [dlast EXCEPT !.id = del.id, !.result = "blobFailed",
                                    !.docBefore = del.docBefore, !.raised = TRUE]
          /\ alerts' = alerts + 1
          /\ UNCHANGED blobs
    /\ UNCHANGED <<createdLog, nextId, photos, trip, loads, up, tripsVars, tagVars, auxVars>>

\* deletePhoto: deleteObject; it rejects when the blob does not exist, and may
\* reject otherwise.  The rejection reaches handleDeletePhoto's catch (one alert).
DeleteObject ==
    /\ del.pc = "blob"
    /\ \/ /\ del.id \in blobs
          /\ blobs' = blobs \ {del.id}
          /\ del' = [del EXCEPT !.pc = "doc"]
          /\ UNCHANGED <<dlast, alerts>>
       \/ /\ del' = [del EXCEPT !.pc = "idle"]
          /\ dlast' = [dlast EXCEPT !.id = del.id, !.result = "blobFailed",
                                    !.docBefore = del.docBefore, !.raised = TRUE]
          /\ alerts' = alerts + 1
          /\ UNCHANGED blobs
    /\ UNCHANGED <<photoDocs, createdLog, nextId, photos, trip, loads, up, tripsVars, tagVars, auxVars>>

\* deletePhoto: deleteDoc; on success handleDeletePhoto filters the in-memory list.
DeleteDoc ==
    /\ del.pc = "doc"
    /\ \/ /\ photoDocs' = {d \in photoDocs : d.id # del.id}
          /\ photos' = SelectSeq(photos, LAMBDA ph : ph.id # del.id)
          /\ dlast' = [id |-> del.id, result |-> "ok", docBefore |-> del.docBefore,
                       raised |-> FALSE, done |-> dlast.done \cup {del.id}]
          /\ UNCHANGED alerts
       \/ /\ dlast' = [dlast EXCEPT !.id = del.id, !.result = "docFailed",
                                    !.docBefore = del.docBefore, !.raised = TRUE]
          /\ alerts' = alerts + 1
          /\ UNCHANGED <<photoDocs, photos>>
    /\ del' = [del EXCEPT !.pc = "idle"]
    /\ UNCHANGED <<blobs, createdLog, nextId, trip, loads, up, tripsVars, tagVars, auxVars>>

StoreInit ==
    /\ photoDocs = {}
    /\ blobs = {}
    /\ createdLog = <<>>
    /\ nextId = 1

PanelInit ==
    /\ photos = <<>>
    /\ trip = Null
    /\ loads = {}
    /\ up = IdleUpload
    /\ del = IdleDelete
    /\ dlast = NoDeletion
    /\ alerts = 0

(***************************************************************************)
(* Tagging people on the active photo (CountryPanel)                       *)
(***************************************************************************)
\* addPersonManual: the first detected face without an assignment (0 when none)
FirstUnassigned(dfs) ==
    IF \E i \in 1..Len(dfs) : dfs[i].assignedMemberId = NoVal
    THEN CHOOSE i \in 1..Len(dfs) :
            /\ dfs[i].assignedMemberId = NoVal
            /\ \A k \in 1..(i - 1) : dfs[k].assignedMemberId # NoVal
    ELSE 0

\* nextTags of addPersonManual
addPersonManualTags(photo, member) ==
    LET u == FirstUnassigned(photo.detectedFaces)
    IN  Append(photo.faceTags,
               FaceTagOf(member.id, member.name,
                         IF u = 0 THEN NoBox ELSE photo.detectedFaces[u].box, NoConf))

\* A plausible slip: every unassigned face is given to the member.
addPersonManualFacesAll(photo, member) ==
    [i \in 1..Len(photo.detectedFaces) |->
        IF photo.detectedFaces[i].assignedMemberId = NoVal
        THEN [photo.detectedFaces[i] EXCEPT !.assignedMemberId = member.id,
                                            !.assignedMemberName = member.name]
        ELSE photo.detectedFaces[i]]

\* nextDetected of addPersonManual: the face with the id of the first unassigned
\* one gets the member (only evaluated when there is such a face)
addPersonManualFaces(photo, member) ==
    LET dfs == photo.detectedFaces
        u == FirstUnassigned(dfs)
    IN  [i \in 1..Len(dfs) |->
            IF dfs[i].id = dfs[u].id
            THEN [dfs[i] EXCEPT !.assignedMemberId = member.id,
                                !.assignedMemberName = member.name]
            ELSE dfs[i]]

\* `next` of removePerson
removePersonTags(photo, memberId) ==
    SelectSeq(photo.faceTags, LAMBDA t : t.memberId # memberId)

\* A plausible slip: only the first face of the member is cleared.
removePersonFacesFirstOnly(photo, memberId) ==
    LET dfs == photo.detectedFaces
        hit == {i \in 1..Len(dfs) : dfs[i].assignedMemberId = memberId}
    IN  [i \in 1..Len(dfs) |->
            IF i \in hit /\ \A k \in hit : i <= k
            THEN [dfs[i] EXCEPT !.assignedMemberId = NoVal, !.assignedMemberName = NoVal]
            ELSE dfs[i]]

\* `dfs` of removePerson: the two assignment fields are dropped from every face
\* assigned to memberId
removePersonFaces(photo, memberId) ==
    [i \in 1..Len(photo.detectedFaces) |->
        IF photo.detectedFaces[i].assignedMemberId # memberId
        THEN photo.detectedFaces[i]
        ELSE [photo.detectedFaces[i] EXCEPT !.assignedMemberId = NoVal,
                                            !.assignedMemberName = NoVal]]

NoTaggingCall == [op |-> "none", arg |-> NoVal, known |-> FALSE, pre |-> <<>>,
                  preDoc |-> <<>>, writes |-> 0, tagsOk |-> FALSE, facesOk |-> FALSE]

MaxTagOps == 3     \* calls of the tagging handlers in one run

\* taggerFaces: the rows of the open tagger; failed: history, a store write of a
\* tagging handler has failed; ops: the handler calls so far; pending: the
\* activePhoto of each openTagger call that is at an await.
NoTagging == [activePhotoId |-> 0, familyMembers |-> <<>>, last |-> NoTaggingCall,
              taggerFaces |-> <<>>, failed |-> FALSE, ops |-> 0, pending |-> <<>>]

\* activePhoto: the photo of the list with id activePhotoId, if any
ActivePhoto ==
    IF tag.activePhotoId \in Ids(photos)
    THEN <<photos[CHOOSE i \in 1..Len(photos) : photos[i].id = tag.activePhotoId]>>
    ELSE <<>>

StoredDoc(id) == SetToSeq({d \in photoDocs : d.id = id})

\* updateDoc of one field of a photo document
UpdatedDocs(docs, id, field, value) ==
    {IF d.id = id THEN [d EXCEPT ![field] = value] ELSE d : d \in docs}

\* setPhotos(prev => prev.map(p => p.id === id ? { ...p, [field]: value } : p))
UpdatedList(list, id, field, value) ==
    [i \in 1..Len(list) |->
        IF list[i].id = id THEN [list[i] EXCEPT ![field] = value] ELSE list[i]]

KnownMember(id) == \E i \in 1..Len(tag.familyMembers) : tag.familyMembers[i].id = id
MemberById(id) ==
    tag.familyMembers[CHOOSE i \in 1..Len(tag.familyMembers) : tag.familyMembers[i].id = id]

Tagged(photo, memberId) ==
    \E i \in 1..Len(photo.faceTags) : photo.faceTags[i].memberId = memberId

\* A tagging handler that writes faceTags through handleUpdateFaceTags (a failure
\* is caught there: one alert, nothing is replaced, the handler goes on) and then,
\* if writeFaces, detectedFaces through updatePhotoDetectedFaces (a failure rejects
\* the handler before its setPhotos).
TagWrites(op, arg, photo, nextTags, writeFaces, nextFaces) ==
    \E tagsOk \in BOOLEAN, facesOk \in BOOLEAN :
        LET docs1 == IF tagsOk THEN UpdatedDocs(photoDocs, photo.id, "faceTags", nextTags)
                     ELSE photoDocs
            list1 == IF tagsOk THEN UpdatedList(photos, photo.id, "faceTags", nextTags)
                     ELSE photos
            doFaces == writeFaces /\ facesOk
        IN  /\ tag.ops < MaxTagOps
            /\ writeFaces \/ facesOk      \* facesOk is immaterial without a second write
            /\ photoDocs' = IF doFaces
                            THEN UpdatedDocs(docs1, photo.id, "detectedFaces", nextFaces)
                            ELSE docs1
            /\ photos' = IF doFaces
                         THEN UpdatedList(list1, photo.id, "detectedFaces", nextFaces)
                         ELSE list1
            /\ alerts' = IF tagsOk THEN alerts ELSE alerts + 1
            /\ tag' = [tag EXCEPT
                          !.failed = @ \/ ~tagsOk \/ (writeFaces /\ ~facesOk),
                          !.ops = @ + 1,
                          !.last =
                          [op |-> op, arg |-> arg, known |-> TRUE, pre |-> <<photo>>,
                           preDoc |-> StoredDoc(photo.id),
                           writes |-> IF writeFaces THEN 2 ELSE 1,
                           tagsOk |-> tagsOk, facesOk |-> doFaces]]

\* A tagging handler that returns before its first write.
TagNoWrite(op, arg, known) ==
    /\ tag.ops < MaxTagOps
    /\ tag' = [tag EXCEPT !.ops = @ + 1, !.last =
                  [op |-> op, arg |-> arg, known |-> known, pre |-> ActivePhoto,
                   preDoc |-> IF ActivePhoto = <<>> THEN <<>>
                              ELSE StoredDoc(ActivePhoto[1].id),
                   writes |-> 0, tagsOk |-> FALSE, facesOk |-> FALSE]]
    /\ UNCHANGED <<photoDocs, photos, alerts>>

\* Ids offered by the manual-add select and by the remove buttons.
MemberIds == {"m1", "m2"}

\* addPersonManual with manualAddId = id
AddPersonManual ==
    \E id \in MemberIds :
        /\ alerts < MaxAlerts
        /\ IF ActivePhoto = <<>> \/ ~KnownMember(id)
           THEN TagNoWrite("addPersonManual", id, KnownMember(id))
           ELSE IF Tagged(ActivePhoto[1], id)
           THEN TagNoWrite("addPersonManual", id, TRUE)
           ELSE TagWrites("addPersonManual", id, ActivePhoto[1],
                          addPersonManualTags(ActivePhoto[1], MemberById(id)),
                          FirstUnassigned(ActivePhoto[1].detectedFaces) # 0,
                          addPersonManualFaces(ActivePhoto[1], MemberById(id)))
        /\ UNCHANGED <<blobs, createdLog, nextId, trip, loads, up, del, dlast,
                       family, mq, tripsVars, auxVars>>

\* removePerson(memberId)
RemovePerson ==
    \E id \in MemberIds :
        /\ alerts < MaxAlerts
        /\ IF ActivePhoto = <<>> THEN TagNoWrite("removePerson", id, TRUE)
           ELSE TagWrites("removePerson", id, ActivePhoto[1],
                          removePersonTags(ActivePhoto[1], id),
                          Len(ActivePhoto[1].detectedFaces) > 0,
                          removePersonFaces(ActivePhoto[1], id))
        /\ UNCHANGED <<blobs, createdLog, nextId, trip, loads, up, del, dlast,
                       family, mq, tripsVars, auxVars>>

\* openPhoto(photo) on a photo of the list
OpenPhoto ==
    \E i \in 1..Len(photos) :
        /\ tag.activePhotoId = 0
        /\ tag' = [tag EXCEPT !.activePhotoId = photos[i].id]
        /\ UNCHANGED <<storeVars, panelVars, family, mq, tripsVars, auxVars>>

\* closePhoto
ClosePhoto ==
    /\ tag.activePhotoId # 0
    /\ tag' = [tag EXCEPT !.activePhotoId = 0, !.taggerFaces = <<>>]
    /\ UNCHANGED <<storeVars, panelVars, family, mq, tripsVars, auxVars>>

\* The family of the tagging runs: Ann has one reference descriptor, Bob (made
\* by createFamilyMember) has none.
TagFamily == << Member("m1", "Ann", <<ToJson(30)>>), Member("m2", "Bob", <<>>) >>

\* Faces of the photo the tagging runs start from.
TagFaces == {
    <<>>,
    <<Detection(1, 0)>>,
    <<Detection(1, 0), Detection(2, 100)>>,
    <<Detection(1, 20), Detection(2, 40)>>,
    <<Detection(1, 100), Detection(2, 200)>> }

\* The photo as handleFileSelect and savePhoto made it: uploaded into "FR" as
\* photo 1, with members = what getFamilyMembers returned during the upload.
UploadedPhoto(faces, members) ==
    LET fd == UploadFaceData([image |-> TRUE, det |-> "ok", faces |-> faces],
                             members, members, {})
    IN  NewPhoto(1, "FR", 1, fd.faceTags, fd.detectedFaces)

(***************************************************************************)
(* The tagger of the active photo: openTagger, the selects, saveTagger,    *)
(* autoApplySuggestions, and the caption (CountryPanel 290-298, 335-569)   *)
(***************************************************************************)
MaxCreated == 1    \* people created from the tagger in one run

UnknownName == "Neizvestno"

\* a || b for optional strings
OrElse(a, b) == IF a # NoVal /\ a # "" THEN a ELSE b

\* new Map(...).set(t.memberId, t) for every tag in turn, then
\* Array.from(values()): a key keeps the place of its first insertion and
\* the value of its last.
RECURSIVE SetAll(_, _)
SetAll(byId, tags) ==
    IF tags = <<>> THEN byId
    ELSE LET t == Head(tags)
             at == {i \in 1..Len(byId) : byId[i].memberId = t.memberId}
         IN SetAll(IF at = {} THEN Append(byId, t)
                   ELSE [i \in 1..Len(byId) |-> IF i \in at THEN t ELSE byId[i]],
                   Tail(tags))

\* The tagger rows built from detected faces (openTagger 388-396, 441-450).
TaggerItems(dfs) ==
    [i \in 1..Len(dfs) |->
        [faceId |-> dfs[i].id, box |-> dfs[i].box,
         matchedId |-> dfs[i].suggestedMemberId, confidence |-> dfs[i].confidence,
         selectedId |-> OrElse(dfs[i].assignedMemberId,
                               OrElse(dfs[i].suggestedMemberId, "")),
         newName |-> ""]]

\* openTagger 351-385: suggestions computed for stored faces that have none.
WithSuggestions(stored, members, matched) ==
    [i \in 1..Len(stored) |->
        IF matched[i].matchedMember = NoVal \/ stored[i].suggestedMemberId # NoVal
        THEN stored[i]
        ELSE [stored[i] EXCEPT
                 !.suggestedMemberId = matched[i].matchedMember,
                 !.suggestedMemberName = NameOf(members, matched[i].matchedMember),
                 !.confidence = matched[i].confidence]]

StoredDetections(stored) ==
    [i \in 1..Len(stored) |-> Detection(stored[i].box, stored[i].descriptorString.val)]

\* The generated id of a detected face, `${Date.now()}-${idx}-${random}`: the
\* detection run that made it and the index of the face in that run.
FaceIdOf(run, idx) == 10 * run + idx

WithFaceIds(faces, run) ==
    [i \in 1..Len(faces) |-> [faces[i] EXCEPT !.id = FaceIdOf(run, i)]]

\* openTagger 421-431: the faces detected from the downloaded image.
FallbackFaceData(members, matched) ==
    [i \in 1..Len(matched) |->
        FaceData(i, matched[i].box, matched[i].descriptor,
                 matched[i].matchedMember, NameOf(members, matched[i].matchedMember),
                 matched[i].confidence, NoVal, NoVal)]

TagLast(op, arg, photo, writes, tagsOk, facesOk) ==
    [op |-> op, arg |-> arg, known |-> TRUE, pre |-> <<photo>>,
     preDoc |-> StoredDoc(photo.id), writes |-> writes,
     tagsOk |-> tagsOk, facesOk |-> facesOk, alerts |-> alerts]

\* openTagger with `photo` as the activePhoto of its closure; `rest` is the calls
\* that are still at an await when this one ends.  The faces it detects are the
\* detection run tag.ops + 1.
openTagger(photo, rest) ==
    \E members \in MembersRead, members2 \in MembersRead, docs \in PhotosRead,
       detected \in TagFaces, envOk \in BOOLEAN, writeOk \in BOOLEAN :
        LET stored == photo.detectedFaces
            needsSuggestions ==
                /\ Len(members) > 0
                /\ \E i \in 1..Len(stored) : stored[i].suggestedMemberId = NoVal
            throws == matchFacesThrows(members2, docs)
            updatedStored ==
                WithSuggestions(stored, members2,
                                matchFaces(members2, docs, StoredDetections(stored)))
            matched == IF Len(members) > 0 /\ Len(detected) > 0
                       THEN matchFaces(members2, docs, detected) ELSE <<>>
            fresh == WithFaceIds(IF Len(members) > 0
                                 THEN FallbackFaceData(members2, matched)
                                 ELSE FaceDataOfFaces(detected), tag.ops + 1)
            matchThrows == Len(members) > 0 /\ Len(detected) > 0 /\ throws
            attempt == envOk /\ ~matchThrows /\ Len(fresh) > 0
            fallbackFails == ~envOk \/ matchThrows \/ (attempt /\ ~writeOk)
        IN IF Len(stored) > 0
           THEN \* stored detections; a failure of the suggestions is only logged
                LET write == needsSuggestions /\ ~throws /\ writeOk
                IN /\ envOk /\ detected = <<>>
                   /\ (needsSuggestions /\ ~throws) \/ writeOk
                   /\ photoDocs' = IF write
                                   THEN UpdatedDocs(photoDocs, photo.id,
                                                    "detectedFaces", updatedStored)
                                   ELSE photoDocs
                   /\ photos' = IF write
                                THEN UpdatedList(photos, photo.id, "detectedFaces",
                                                 updatedStored)
                                ELSE photos
                   /\ tag' = [tag EXCEPT
                                 !.ops = @ + 1, !.pending = rest,
                                 !.familyMembers = members,
                                 !.taggerFaces = TaggerItems(stored),
                                 !.failed = @ \/ (needsSuggestions /\ ~throws /\ ~writeOk),
                                 !.last = TagLast("openTagger", NoVal, photo, 0,
                                                  FALSE, FALSE)]
                   /\ UNCHANGED alerts
           ELSE \* detection from the downloaded image; a failure is alerted
                /\ attempt \/ writeOk
                /\ photoDocs' = IF attempt /\ writeOk
                                THEN UpdatedDocs(photoDocs, photo.id,
                                                 "detectedFaces", fresh)
                                ELSE photoDocs
                /\ photos' = IF attempt /\ writeOk
                             THEN UpdatedList(photos, photo.id, "detectedFaces", fresh)
                             ELSE photos
                /\ tag' = [tag EXCEPT
                              !.ops = @ + 1, !.pending = rest,
                              !.familyMembers = members,
                              !.taggerFaces = IF fallbackFails THEN <<>>
                                              ELSE TaggerItems(fresh),
                              !.failed = @ \/ (attempt /\ ~writeOk),
                              !.last = TagLast("openTagger", NoVal, photo, 0,
                                               FALSE, FALSE)]
                /\ alerts' = IF fallbackFails THEN alerts + 1 ELSE alerts

TaggerFrame ==
    <<blobs, createdLog, nextId, trip, loads, up, del, dlast, mq, tripsVars, auxVars>>

\* A run is followed for MaxTagOps handler calls.
RunGoesOn == tag.ops < MaxTagOps

OpenTagger ==
    /\ alerts < MaxAlerts /\ RunGoesOn
    /\ ActivePhoto # <<>>
    /\ openTagger(ActivePhoto[1], tag.pending)
    /\ UNCHANGED <<family, TaggerFrame>>

MaxPending == 2    \* openTagger calls at an await together

\* openTagger up to its first await (335-342): the "tag people" button of the
\* people section stays enabled while a call is running, and the call works on
\* the activePhoto of the render it was made in.
OpenTaggerBegins ==
    /\ RunGoesOn
    /\ ActivePhoto # <<>>
    /\ Len(tag.pending) < MaxPending
    /\ tag' = [tag EXCEPT !.pending = Append(@, ActivePhoto[1]), !.taggerFaces = <<>>]
    /\ UNCHANGED <<storeVars, panelVars, family, mq, tripsVars, auxVars>>

\* The rest of an openTagger call that was at an await.
OpenTaggerEnds ==
    /\ alerts < MaxAlerts /\ RunGoesOn
    /\ \E i \in 1..Len(tag.pending) :
          openTagger(tag.pending[i],
                     SubSeq(tag.pending, 1, i - 1)
                        \o SubSeq(tag.pending, i + 1, Len(tag.pending)))
    /\ UNCHANGED <<family, TaggerFrame>>

\* What the selects and name inputs of the tagger rows can be set to before
\* the save button is pressed (onChange handlers, 1080-1106): each row keeps
\* its selection, or gets "", a member of the list, or "new" with a name.
RowChoices(row) ==
    {row} \cup {[row EXCEPT !.selectedId = v] :
                   v \in {""} \cup {tag.familyMembers[k].id :
                                       k \in 1..Len(tag.familyMembers)}}
          \cup {[row EXCEPT !.selectedId = "new", !.newName = name] :
                   name \in {"", " ", "Cy"}}

RECURSIVE TaggerChoices(_)
TaggerChoices(rows) ==
    IF rows = <<>> THEN {<<>>}
    ELSE {<<h>> \o t : h \in RowChoices(Head(rows)), t \in TaggerChoices(Tail(rows))}

\* The close button of the tagger
CloseTagger ==
    /\ tag.taggerFaces # <<>>
    /\ tag' = [tag EXCEPT !.taggerFaces = <<>>]
    /\ UNCHANGED <<storeVars, panelVars, family, mq, tripsVars, auxVars>>

\* idToName.get(id) || fallback, over the familyMembers state and the people
\* just created
IdToName(members, id, fallback) == OrElse(NameOf(members, id), fallback)

\* saveTagger 534-541: the tags of the rows with a person selected
saveTaggerTags(rows, members) ==
    LET chosen == SelectSeq(rows, LAMBDA f : f.selectedId # "" /\ f.selectedId # "new")
    IN [i \in 1..Len(chosen) |->
           FaceTagOf(chosen[i].selectedId,
                     IdToName(members, chosen[i].selectedId, UnknownName),
                     chosen[i].box,
                     IF chosen[i].matchedId = chosen[i].selectedId
                     THEN chosen[i].confidence ELSE NoConf)]

\* A plausible slip: the face keeps the selection of its row even when no
\* tag is made for it ("new").
saveTaggerFacesAnySelection(photo, rows, members) ==
    [i \in 1..Len(photo.detectedFaces) |->
        LET df == photo.detectedFaces[i]
            at == {k \in 1..Len(rows) : rows[k].faceId = df.id}
        IN IF at = {} THEN df
           ELSE LET chosen == rows[CHOOSE k \in at : \A j \in at : k <= j]
                IN IF chosen.selectedId = "" THEN df
                   ELSE [df EXCEPT !.assignedMemberId = chosen.selectedId]]

\* saveTagger 552-561: the assignments of the rows written into the faces
saveTaggerFaces(photo, rows, members) ==
    [i \in 1..Len(photo.detectedFaces) |->
        LET df == photo.detectedFaces[i]
            at == {k \in 1..Len(rows) : rows[k].faceId = df.id}
        IN IF at = {} THEN df
           ELSE LET chosen == rows[CHOOSE k \in at : \A j \in at : k <= j]
                IN IF chosen.selectedId = "" \/ chosen.selectedId = "new" THEN df
                   ELSE [df EXCEPT
                            !.assignedMemberId = chosen.selectedId,
                            !.assignedMemberName =
                                IdToName(members, chosen.selectedId,
                                         df.assignedMemberName)]]

\* The rows for which saveTagger creates a person: "new" with a name.
TrimName(name) == IF name = " " THEN "" ELSE name

NewOnes(rows) ==
    SelectSeq(rows, LAMBDA f : f.selectedId = "new" /\ TrimName(f.newName) # "")

\* The ids createFamilyMember makes (`member-${Date.now()}`), in order.
NewIds == <<"n1", "n2", "n3">>

CreatedSoFar == Cardinality({i \in 1..Len(family) : family[i].id \notin MemberIds})

\* The people saveTagger creates for the rows, by createFamilyMember.
CreatedMembers(rows) ==
    [k \in 1..Len(NewOnes(rows)) |->
        Member(NewIds[CreatedSoFar + k], TrimName(NewOnes(rows)[k].newName), <<>>)]

\* History of a saveTagger call: the rows it read from taggerFaces and the
\* number of people before it.
SavedRows(last, rows, people) ==
    [f \in DOMAIN last \cup {"rows", "people"} |->
        CASE f = "rows" -> rows
          [] f = "people" -> people
          [] OTHER -> last[f]]

\* saveTagger
SaveTagger ==
    /\ alerts < MaxAlerts /\ RunGoesOn
    /\ IF ActivePhoto = <<>>
       THEN TagNoWrite("saveTagger", NoVal, TRUE) /\ UNCHANGED family
       ELSE \E createOk \in BOOLEAN, tagsOk \in BOOLEAN, facesOk \in BOOLEAN :
            \E rows \in TaggerChoices(tag.taggerFaces) :
            LET photo == ActivePhoto[1]
                created == CreatedMembers(rows)
                members == tag.familyMembers \o created
                next == SetAll(<<>>, photo.faceTags \o saveTaggerTags(rows, members))
                faces == saveTaggerFaces(photo, rows, members)
                writeFaces == Len(faces) > 0
                doFaces == writeFaces /\ facesOk
                docs1 == IF tagsOk
                         THEN UpdatedDocs(photoDocs, photo.id, "faceTags", next)
                         ELSE photoDocs
                list1 == IF tagsOk
                         THEN UpdatedList(photos, photo.id, "faceTags", next)
                         ELSE photos
            IN /\ CreatedSoFar + Len(created) <= MaxCreated
               /\ created # <<>> \/ createOk
               /\ IF ~createOk
                  THEN \* setDoc of createFamilyMember rejects: nothing else runs
                       /\ tagsOk /\ facesOk
                       /\ tag' = [tag EXCEPT !.failed = TRUE, !.taggerFaces = rows,
                                     !.ops = @ + 1,
                                     !.last = TagLast("saveTagger", NoVal, photo, 0,
                                                      FALSE, FALSE)]
                       /\ UNCHANGED <<family, photoDocs, photos, alerts>>
                  ELSE /\ writeFaces \/ facesOk
                       /\ family' = family \o created
                       /\ photoDocs' = IF doFaces
                                       THEN UpdatedDocs(docs1, photo.id,
                                                        "detectedFaces", faces)
                                       ELSE docs1
                       /\ photos' = IF doFaces
                                    THEN UpdatedList(list1, photo.id,
                                                     "detectedFaces", faces)
                                    ELSE list1
                       /\ alerts' = IF tagsOk THEN alerts ELSE alerts + 1
                       /\ tag' = [tag EXCEPT
                                     !.ops = @ + 1,
                                     !.familyMembers = members,
                                     !.taggerFaces = IF writeFaces /\ ~facesOk
                                                     THEN rows ELSE <<>>,
                                     !.failed = @ \/ ~tagsOk \/ (writeFaces /\ ~facesOk),
                                     !.last = SavedRows(
                                                  TagLast("saveTagger", NoVal, photo,
                                                          IF writeFaces THEN 2 ELSE 1,
                                                          tagsOk, doFaces),
                                                  rows, Len(family))]
    /\ UNCHANGED TaggerFrame

\* autoApplySuggestions 485-493: every suggestion not yet assigned is assigned
autoApplyFaces(faces, members) ==
    [i \in 1..Len(faces) |->
        IF faces[i].assignedMemberId # NoVal \/ faces[i].suggestedMemberId = NoVal
        THEN faces[i]
        ELSE [faces[i] EXCEPT
                 !.assignedMemberId = faces[i].suggestedMemberId,
                 !.assignedMemberName =
                     OrElse(faces[i].suggestedMemberName,
                            IdToName(members, faces[i].suggestedMemberId,
                                     UnknownName))]]

\* autoApplySuggestions 496-506: a tag for every assigned face
autoApplyTags(photo, updatedDetected) ==
    LET assigned == SelectSeq(updatedDetected, LAMBDA df : df.assignedMemberId # NoVal)
    IN SetAll(<<>>, photo.faceTags \o
              [i \in 1..Len(assigned) |->
                  FaceTagOf(assigned[i].assignedMemberId,
                            OrElse(assigned[i].assignedMemberName, UnknownName),
                            assigned[i].box, NoConf)])

\* autoApplySuggestions: detectedFaces is written first and a failure rejects
\* the handler; faceTags goes through handleUpdateFaceTags, which alerts and
\* returns; the final setPhotos installs both values.
AutoApplySuggestions ==
    /\ alerts < MaxAlerts /\ RunGoesOn
    /\ IF ActivePhoto = <<>>
       THEN TagNoWrite("autoApplySuggestions", NoVal, TRUE)
       ELSE IF Len(ActivePhoto[1].detectedFaces) = 0
       THEN openTagger(ActivePhoto[1], tag.pending)
       ELSE \E members \in MembersRead, tagsOk \in BOOLEAN, facesOk \in BOOLEAN :
            LET photo == ActivePhoto[1]
                updatedDetected == autoApplyFaces(photo.detectedFaces, members)
                nextTags == autoApplyTags(photo, updatedDetected)
                docs1 == UpdatedDocs(photoDocs, photo.id, "detectedFaces",
                                     updatedDetected)
            IN /\ facesOk \/ tagsOk
               /\ photoDocs' = IF ~facesOk THEN photoDocs
                               ELSE IF tagsOk
                               THEN UpdatedDocs(docs1, photo.id, "faceTags", nextTags)
                               ELSE docs1
               /\ photos' = IF ~facesOk THEN photos
                            ELSE UpdatedList(UpdatedList(photos, photo.id,
                                                         "detectedFaces",
                                                         updatedDetected),
                                             photo.id, "faceTags", nextTags)
               /\ alerts' = IF facesOk /\ ~tagsOk THEN alerts + 1 ELSE alerts
               /\ tag' = [tag EXCEPT
                             !.ops = @ + 1,
                             !.familyMembers = members,
                             !.failed = @ \/ ~facesOk \/ ~tagsOk,
                             !.last = TagLast("autoApplySuggestions", NoVal, photo,
                                              IF facesOk THEN 2 ELSE 1,
                                              facesOk /\ tagsOk, facesOk)]
    /\ UNCHANGED <<family, TaggerFrame>>

Captions == {"", "Paris"}

\* handleUpdateCaption(id, caption) for a photo of the list
UpdateCaption ==
    /\ alerts < MaxAlerts /\ RunGoesOn
    /\ \E i \in 1..Len(photos), caption \in Captions, ok \in BOOLEAN :
          LET photo == photos[i]
          IN /\ photoDocs' = IF ok THEN UpdatedDocs(photoDocs, photo.id, "caption",
                                                    caption)
                             ELSE photoDocs
             /\ photos' = IF ok THEN UpdatedList(photos, photo.id, "caption", caption)
                          ELSE photos
             /\ alerts' = IF ok THEN alerts ELSE alerts + 1
             /\ tag' = [tag EXCEPT
                           !.ops = @ + 1,
                           !.failed = @ \/ ~ok,
                           !.last = TagLast("handleUpdateCaption", NoVal, photo, 1,
                                            ok, FALSE)]
    /\ UNCHANGED <<family, TaggerFrame>>

(***************************************************************************)
(* A call of matchFaces                                                    *)
(***************************************************************************)
\* refs: the labeled descriptors the call built; ops: the tagging handler calls
\* made before it (history)
NoMatchCall == [called |-> FALSE, members |-> <<>>, docs |-> {}, faces |-> <<>>,
                threw |-> FALSE, result |-> <<>>, refs |-> <<>>, ops |-> 0]

\* Detections handed to matchFaces (by handleFileSelect and openTagger)
FaceInputs ==
    LET D == {Detection(1, 0), Detection(2, 30), Detection(3, 100)}
    IN  {<<>>} \cup {<<a>> : a \in D} \cup {<<a, b>> : a \in D, b \in D}

\* The familyMembers collection in the matching runs: empty; members without any
\* descriptor; a member with a reference descriptor in each of the stored formats;
\* a member whose stored string does not parse.
MatchFamilies == {
    <<>>,
    << Member("m1", "Ann", <<>>) >>,
    << Member("m1", "Ann", <<>>), Member("m2", "Bob", <<>>) >>,
    << Member("m1", "Ann", <<ToJson(30)>>) >>,
    << Member("m1", "Ann", <<ToJson(30)>>), Member("m2", "Bob", <<>>) >>,
    << [Member("m1", "Ann", <<>>) EXCEPT !.descriptors = <<30>>] >>,
    << [Member("m1", "Ann", <<>>) EXCEPT !.descriptor = <<30>>] >>,
    << Member("m1", "Ann", <<Malformed(30)>>) >>,
    << Member("m1", "Ann", <<Malformed(0), ToJson(30)>>),
       Member("m2", "Bob", <<ToJson(100)>>) >> }

\* The photos collection in the matching runs: empty; a face nobody is assigned
\* to; a face assigned to a member that was deleted; a face assigned to Ann.
MatchPhoto(assigned) ==
    NewPhoto(1, "FR", 1, <<>>,
             <<FaceData(1, 1, 30, NoVal, NoVal, NoConf, assigned, assigned)>>)

\* A photo with two faces assigned to Ann, the first with a descriptor string
\* that does not parse.
MatchPhotoMalformed ==
    NewPhoto(2, "FR", 2, <<>>,
             << [FaceData(1, 1, 0, NoVal, NoVal, NoConf, "m1", "m1")
                    EXCEPT !.descriptorString = Malformed(0)],
                FaceData(2, 2, 100, NoVal, NoVal, NoConf, "m1", "m1") >>)

MatchDocs == { {}, {MatchPhoto(NoVal)}, {MatchPhoto("gone")}, {MatchPhoto("m1")},
               {MatchPhotoMalformed}, {MatchPhoto("m1"), MatchPhotoMalformed} }

\* matchFaces(detectedFaces), with the two reads it makes
MatchFacesCall(inputs) ==
    \E faces \in inputs, members \in MembersRead, docs \in PhotosRead :
        /\ mq' = [called |-> TRUE, members |-> members, docs |-> docs, faces |-> faces,
                  threw |-> matchFacesThrows(members, docs),
                  result |-> IF matchFacesThrows(members, docs) THEN <<>>
                             ELSE matchFaces(members, docs, faces),
                  refs |-> IF matchFacesThrows(members, docs) THEN <<>>
                           ELSE LabeledDescriptors(members, docs),
                  ops |-> tag.ops]
        /\ UNCHANGED <<storeVars, panelVars, family, tag, tripsVars, auxVars>>

CallMatchFaces == MatchFacesCall(FaceInputs)

\* A match of one new face made between the tagging handlers (by an upload or
\* by openTagger of another session).
LaterFaceInputs == { <<Detection(1, 0)>>, <<Detection(1, 100)>> }

MatchLater == MatchFacesCall(LaterFaceInputs)

StartUploadAny == StartUpload(Batches)
StartUploadPlain == StartUpload(PlainBatches)

(***************************************************************************)
(* The load effect of useTripsData (types/trips.ts 185-216) against the    *)
(* trips document of the store (lib/storage.ts 47-70)                      *)
(***************************************************************************)
NoCloudDoc == [exists |-> FALSE, visited |-> <<>>]
CloudDoc(v) == [exists |-> TRUE, visited |-> v]

\* The bundled /data/trips.json.
SeedVisited == << Trip("Japan", <<"J", "P">>, "Asia") >>

\* boot.cloud is the trips document in the store; boot.got what getTripsData
\* resolved to; boot.seededOver the document the seed write replaced.
LoadState(pc, cloud) ==
    [pc |-> pc, cancelled |-> FALSE, loading |-> pc # "done", error |-> FALSE,
     cloud |-> cloud, got |-> NoCloudDoc, seeded |-> FALSE,
     seededOver |-> NoCloudDoc]

LoadInit ==
    \E v \in InitialVisited, present \in BOOLEAN :
        boot = LoadState("mounted", IF present THEN CloudDoc(v) ELSE NoCloudDoc)

\* Where the load is not studied it is over and the store's document is not read.
LoadDone == boot = LoadState("done", NoCloudDoc)

LoadFrame == <<tlast, storeVars, panelVars, tagVars, call, gate, models, previews>>

\* load(): the effect body runs up to `await getTripsData()`.
LoadStart ==
    /\ boot.pc = "mounted"
    /\ boot' = [boot EXCEPT !.pc = "reading"]
    /\ UNCHANGED <<data, LoadFrame>>

\* The cleanup of the effect: the component unmounts while load() is pending.
LoadCancel ==
    /\ boot.pc \in {"reading", "fetching", "saving"}
    /\ ~boot.cancelled
    /\ boot' = [boot EXCEPT !.cancelled = TRUE]
    /\ UNCHANGED <<data, LoadFrame>>

\* getTripsData resolves: the document, null when there is none, and null
\* as well when getDoc rejects (the catch of storage.ts 56-59).
GetTripsDataReturns ==
    /\ boot.pc = "reading"
    /\ \E readOk \in BOOLEAN :
          LET cloud == IF readOk THEN boot.cloud ELSE NoCloudDoc
          IN IF ~boot.cancelled /\ cloud.exists
             THEN /\ data' = [null |-> FALSE, visited |-> cloud.visited]
                  /\ boot' = [boot EXCEPT !.pc = "done", !.got = cloud,
                                      !.loading = FALSE]
             ELSE /\ boot' = [boot EXCEPT !.pc = "fetching", !.got = cloud]
                  /\ UNCHANGED data
    /\ UNCHANGED LoadFrame

\* What catch and finally do when load() throws.
LoadThrows(l) ==
    [l EXCEPT !.pc = "done",
              !.error = IF l.cancelled THEN l.error ELSE TRUE,
              !.loading = IF l.cancelled THEN l.loading ELSE FALSE]

\* fetch('/data/trips.json') resolves; saveTripsData(json) is called next.
FetchSeedReturns ==
    /\ boot.pc = "fetching"
    /\ \E resOk \in BOOLEAN :
          boot' = IF resOk THEN [boot EXCEPT !.pc = "saving"] ELSE LoadThrows(boot)
    /\ UNCHANGED <<data, LoadFrame>>

\* saveTripsData(json) settles: setDoc replaces the document or rejects.
SaveSeedReturns ==
    /\ boot.pc = "saving"
    /\ \E writeOk \in BOOLEAN :
          IF writeOk
          THEN /\ boot' = [boot EXCEPT !.pc = "done", !.cloud = CloudDoc(SeedVisited),
                                   !.seeded = TRUE, !.seededOver = boot.cloud,
                                   !.loading = IF boot.cancelled THEN boot.loading
                                               ELSE FALSE]
               /\ data' = IF boot.cancelled THEN data
                          ELSE [null |-> FALSE, visited |-> SeedVisited]
          ELSE /\ boot' = LoadThrows(boot)
               /\ UNCHANGED data
    /\ UNCHANGED LoadFrame

\* Another client of the same store saves its trips document.
OtherClientSaves ==
    /\ boot.pc \in {"mounted", "reading"}
    /\ \E v \in InitialVisited : boot' = [boot EXCEPT !.cloud = CloudDoc(v)]
    /\ boot.cloud # boot'.cloud
    /\ UNCHANGED <<data, LoadFrame>>

\* The persist effect (219-224): once loaded, the state is saved on change.
PersistTrips ==
    /\ ~data.null /\ ~boot.loading /\ ~boot.cancelled
    /\ boot.cloud # CloudDoc(data.visited)
    /\ boot' = [boot EXCEPT !.cloud = CloudDoc(data.visited)]
    /\ UNCHANGED <<data, LoadFrame>>

(***************************************************************************)
(* The password gate (components/PasswordGate.tsx)                         *)
(*                                                                         *)
(* A string is the sequence of its characters; an environment variable is  *)
(* a string or undefined.                                                  *)
(***************************************************************************)
MaxSubmits == 2

EnvUndefined == [defined |-> FALSE, s |-> <<>>]
EnvString(s) == [defined |-> TRUE, s |-> s]

\* String.prototype.trim: leading and trailing blanks are dropped.
trim(s) == TrimRight(TrimLeft(s))

\* sha256Base64: the base64 text of the digest; distinct inputs have distinct
\* digests, and no password is its own digest.
sha256Base64(input) == <<"#">> \o input

\* useMemo (17-24): value?.trim() || ''
Config(plain, hash) ==
    [plain |-> IF plain.defined THEN trim(plain.s) ELSE <<>>,
     hash  |-> IF hash.defined THEN trim(hash.s) ELSE <<>>]

canCheck(config) == config.hash # <<>> \/ config.plain # <<>>

\* A plausible slip: any non-empty input passes the plaintext test.
plainMatchesNonEmpty(config, input) == input # <<>>

\* config.plain && input === config.plain
plainMatches(config, input) == config.plain # <<>> /\ input = config.plain

\* config.hash && (await sha256Base64(input)) === config.hash
hashMatches(config, input) ==
    config.hash # <<>> /\ sha256Base64(input) = config.hash

EnvPlain ==
    {EnvUndefined, EnvString(<<>>), EnvString(<<" ">>), EnvString(<<"a">>),
     EnvString(<<" ", "a", " ">>)}
EnvHash ==
    {EnvUndefined, EnvString(<<" ">>), EnvString(sha256Base64(<<"b">>)),
     EnvString(sha256Base64(<<"b">>) \o <<" ">>)}
Passwords == {<<>>, <<"a">>, <<"b">>, <<"c">>}
SessionValues == {"null", "0", "1"}

\* gate.session is sessionStorage[SESSION_KEY]; gate.pending the inputs of the
\* submit() calls waiting for their digest; gate.flagAtMount and
\* gate.submitted are history.
GateState(config, session) ==
    [config |-> config, session |-> session, ready |-> FALSE, authed |-> FALSE,
     password |-> <<>>, error |-> FALSE, submitting |-> FALSE,
     pending |-> <<>>, flagAtMount |-> FALSE, submitted |-> {}]

GateInit ==
    \E plain \in EnvPlain, hash \in EnvHash, session \in SessionValues :
        gate = GateState(Config(plain, hash), session)

GateIdle == gate = GateState(Config(EnvUndefined, EnvUndefined), "null")

GateFrame == <<tripsVars, storeVars, panelVars, tagVars, call, boot, models, previews>>

\* What the component renders: nothing, the children, or the form.
Renders ==
    IF ~gate.ready THEN "nothing" ELSE IF gate.authed THEN "children" ELSE "form"

\* useEffect (26-30)
GateMount ==
    /\ ~gate.ready
    /\ gate' = [gate EXCEPT !.authed = (gate.session = "1"), !.ready = TRUE,
                            !.flagAtMount = (gate.session = "1")]
    /\ UNCHANGED GateFrame

\* onChange of the input
TypePassword ==
    /\ Renders = "form"
    /\ \E p \in Passwords : gate' = [gate EXCEPT !.password = p]
    /\ gate' # gate
    /\ UNCHANGED GateFrame

\* What the end of submit() does once `ok` is known (43-51).
SubmitEnds(g, ok) ==
    IF ok
    THEN [g EXCEPT !.session = "1", !.authed = TRUE, !.submitting = FALSE]
    ELSE [g EXCEPT !.error = TRUE, !.submitting = FALSE]

\* submit() up to its first await, or to its end when nothing is awaited.
submit(g) ==
    LET input == g.password
        s == [g EXCEPT !.submitting = TRUE, !.error = FALSE,
                       !.submitted = @ \cup {input}]
    IN IF plainMatches(g.config, input) THEN SubmitEnds(s, TRUE)
       ELSE IF g.config.hash # <<>> THEN [s EXCEPT !.pending = Append(@, input)]
       ELSE SubmitEnds(s, FALSE)

\* onClick of the button, which is disabled without a configured password,
\* without input, and while a submit is running.
ClickSubmit ==
    /\ Renders = "form"
    /\ canCheck(gate.config) /\ gate.password # <<>> /\ ~gate.submitting
    /\ Len(gate.pending) < MaxSubmits
    /\ gate' = submit(gate)
    /\ UNCHANGED GateFrame

\* onKeyDown: e.key === 'Enter' && password
PressEnter ==
    /\ Renders = "form"
    /\ gate.password # <<>>
    /\ Len(gate.pending) < MaxSubmits
    /\ gate' = submit(gate)
    /\ UNCHANGED GateFrame

\* The digest of a waiting submit() arrives, or crypto.subtle.digest rejects.
DigestReturns ==
    /\ gate.pending # <<>>
    /\ \E i \in 1..Len(gate.pending), digestOk \in BOOLEAN :
          LET input == gate.pending[i]
              rest == [gate EXCEPT !.pending = SubSeq(@, 1, i - 1) \o SubSeq(@, i + 1, Len(@))]
          IN gate' = IF digestOk THEN SubmitEnds(rest, hashMatches(gate.config, input))
                     ELSE [rest EXCEPT !.submitting = FALSE]
    /\ UNCHANGED GateFrame

(***************************************************************************)
(* loadModels (lib/faceRecognition.ts 28-44) and its callers               *)
(***************************************************************************)
MaxModelCalls == 4

\* handleFileSelect (in the background), detectFaces, openTagger
ModelCallers == {"handleFileSelect", "detectFaces", "openTagger"}

\* models.loaded is the module variable modelsLoaded; models.calls the calls of
\* loadModels so far, each with its caller and where it stands.
ModelsInit == models = [loaded |-> FALSE, calls |-> <<>>]

ModelsFrame == <<tripsVars, storeVars, panelVars, tagVars, call, boot, gate, previews>>

\* loadModels() up to its await: it returns at once when the flag is set,
\* and starts loading the three nets otherwise.
LoadModelsCall ==
    /\ Len(models.calls) < MaxModelCalls
    /\ \E caller \in ModelCallers :
          models' = [models EXCEPT !.calls =
                        Append(@, [caller |-> caller,
                                   pc |-> IF models.loaded THEN "returned"
                                          ELSE "loading"])]
    /\ UNCHANGED ModelsFrame

\* Promise.all settles: the flag is set after the weights have been loaded;
\* a rejection leaves it as it is.
LoadModelsSettles ==
    /\ \E i \in 1..Len(models.calls), ok \in BOOLEAN :
          /\ models.calls[i].pc = "loading"
          /\ models' = [models EXCEPT
                           !.loaded = @ \/ ok,
                           !.calls[i].pc = IF ok THEN "loaded" ELSE "rejected"]
    /\ UNCHANGED ModelsFrame

(***************************************************************************)
(* Travel statistics (useTripsData.getTravelStats)                         *)
(***************************************************************************)
NoCall == [fn |-> "none"]

AuxInit == call = NoCall /\ LoadDone /\ GateIdle /\ ModelsInit /\ PreviewsIdle

TOTAL_COUNTRIES_IN_WORLD == 195

\* A plausible slip: the quotient is cut off instead of rounded.
MathFloor(a, b) == a \div b

\* Math.round(a / b) for a >= 0, b > 0: the nearest integer, a half goes up.
\* (The code rounds the double (n / 195) * 100; no value of 100 n / 195 is within
\* 1/390 of a half, so the double rounds like the exact quotient.)
MathRound(a, b) == (2 * a + b) \div (2 * b)

\* continents in the order of their first entry in visited (Object.entries order)
ContinentOrder(visited) ==
    LET firsts == {i \in 1..Len(visited) :
                     \A j \in 1..(i - 1) : visited[j].continent # visited[i].continent}
    IN  [k \in 1..Cardinality(firsts) |->
            visited[CHOOSE i \in firsts :
                       Cardinality({j \in firsts : j < i}) = k - 1].continent]

\* getTravelStats over data?.visited || []
getTravelStats(visited) ==
    LET order == ContinentOrder(visited)
        count(c) == Cardinality({i \in 1..Len(visited) : visited[i].continent = c})
        \* sort((a, b) => b[1] - a[1])[0]: the first continent of greatest count
        top == {i \in 1..Len(order) :
                  /\ \A j \in 1..Len(order) : count(order[j]) <= count(order[i])
                  /\ \A j \in 1..(i - 1) : count(order[j]) < count(order[i])}
    IN  [countriesVisited |-> Len(visited),
         worldPercentage |-> MathRound(Len(visited) * 100, TOTAL_COUNTRIES_IN_WORLD),
         mostVisitedContinent |-> IF order = <<>> THEN "N/A"
                                  ELSE order[CHOOSE i \in top : TRUE],
         continentCounts |-> [i \in 1..Len(order) |->
                                 [continent |-> order[i], count |-> count(order[i])]]]

\* Visited lists of every length up to the number of countries in the world;
\* every third entry, or none, lies in Asia.
StatsVisited(n, asia) ==
    [i \in 1..n |-> Trip("France", <<"F", "R">>,
                         IF asia /\ i % 3 = 0 THEN "Asia" ELSE "Europe")]

CallGetTravelStats ==
    /\ call' = [fn |-> "getTravelStats", out |-> getTravelStats(data.visited)]
    /\ UNCHANGED <<tripsVars, storeVars, panelVars, tagVars, effVars>>

(***************************************************************************)
(* JPEG conversion before upload (components/CountryPanel.tsx 70-136)      *)
(*                                                                         *)
(* A File is its name, its declared type and its bytes.  A name is a stem  *)
(* and its last extension: endsWith('.webp') and the $-anchored regular    *)
(* expressions of the code look at nothing else.  The bytes are the format *)
(* they really hold and the number of times they have been re-encoded.     *)
(***************************************************************************)
FileStems == {"", "a", "a.heic"}
FileExts == {"", ".jpg", ".webp", ".WEBP", ".heic", ".HEIF"}
FileTypes == {"", "image/jpeg", "image/webp", "IMAGE/WEBP", "image/heic", "image/heif"}
FileFormats == {"jpeg", "webp", "heic", "junk"}

File(stem, ext, type, format, encoded) ==
    [name |-> [stem |-> stem, ext |-> ext], type |-> type,
     bytes |-> [format |-> format, encoded |-> encoded]]

InputFiles ==
    {File(s, e, t, f, 0) : s \in FileStems, e \in FileExts, t \in FileTypes,
                           f \in FileFormats}

toLowerCase(s) ==
    CASE s = ".WEBP" -> ".webp"
      [] s = ".HEIF" -> ".heif"
      [] s = "IMAGE/WEBP" -> "image/webp"
      [] OTHER -> s

\* file.name.replace(/\.(heic|heif)$/i, '.jpg') || 'photo.jpg'
ReplaceHeicExt(name) ==
    LET r == IF toLowerCase(name.ext) \in {".heic", ".heif"}
             THEN [name EXCEPT !.ext = ".jpg"] ELSE name
    IN IF r.stem = "" /\ r.ext = "" THEN [stem |-> "photo", ext |-> ".jpg"] ELSE r

\* file.name.replace(/\.(webp)$/i, '.jpg')
ReplaceWebpExt(name) ==
    IF toLowerCase(name.ext) = ".webp" THEN [name EXCEPT !.ext = ".jpg"] ELSE name

\* What the environment decides in one call: heic2any (the dynamic import and
\* the conversion), outBlob (heic2any yields a blob), decode (the image loads),
\* ctx (a 2d context is given), encode (canvas.toBlob yields a blob).
ConvertEnvOk ==
    [heic2any |-> TRUE, outBlob |-> TRUE, decode |-> TRUE, ctx |-> TRUE, encode |-> TRUE]

\* Every step works, or one of them fails.
ConvertEnvs ==
    {ConvertEnvOk} \cup {[ConvertEnvOk EXCEPT ![k] = FALSE] :
                            k \in {"heic2any", "outBlob", "decode", "ctx", "encode"}}

Returned(file) == [threw |-> FALSE, out |-> file]
Thrown(file) == [threw |-> TRUE, out |-> file]

ToJpeg(file, name) ==
    [name |-> name, type |-> "image/jpeg",
     bytes |-> [format |-> "jpeg", encoded |-> file.bytes.encoded + 1]]

\* The body of the try block of the HEIC/HEIF branch (82-88): heic2any throws
\* for bytes that do not hold HEIC.
convertHeicTry(file, env) ==
    IF file.bytes.format # "heic" \/ ~env.heic2any THEN Thrown(file)
    ELSE IF ~env.outBlob THEN Returned(file)
    ELSE Returned(ToJpeg(file, ReplaceHeicExt(file.name)))

\* The body of the try block of the canvas branch (100-128): the browser
\* decodes an image by its content.
convertCanvasTry(file, env) ==
    IF file.bytes.format \notin {"jpeg", "webp"} \/ ~env.decode THEN Thrown(file)
    ELSE IF ~env.ctx THEN Returned(file)
    ELSE IF ~env.encode THEN Thrown(file)
    ELSE Returned(ToJpeg(file, ReplaceWebpExt(file.name)))

\* A plausible slip: no catch, the failure leaves the function.
convertCatchRethrows(file, r) == r

\* The catch blocks (89-92, 129-132): the original file is returned.
convertCatch(file, r) == IF r.threw THEN Returned(file) ELSE r

\* convertToJpegIfNeeded with its way of ending: returned or thrown.
convertOutcome(file, env) ==
    LET ext == toLowerCase(file.name.ext)
        type == toLowerCase(file.type)
        isWebp == type = "image/webp" \/ ext = ".webp"
        isHeic == type = "image/heic" \/ type = "image/heif"
                     \/ ext = ".heic" \/ ext = ".heif"
    IN IF ~isWebp /\ ~isHeic THEN Returned(file)
       ELSE IF isHeic THEN convertCatch(file, convertHeicTry(file, env))
       ELSE convertCatch(file, convertCanvasTry(file, env))

\* The file convertToJpegIfNeeded resolves to.
convertToJpegIfNeeded(file, env) == convertOutcome(file, env).out

\* The function applied to a file, and applied again to what it returned; one
\* such pair of calls is followed per run.
CallConvertToJpeg ==
    \E file \in InputFiles, env1 \in ConvertEnvs, env2 \in ConvertEnvs :
        LET once == convertToJpegIfNeeded(file, env1)
        IN /\ call.fn = "none"
           /\ call' = [fn |-> "convertToJpegIfNeeded", arg |-> file,
                       envOk |-> <<env1, env2>>, out |-> once,
                       threw |-> convertOutcome(file, env1).threw,
                       twice |-> convertToJpegIfNeeded(once, env2)]
           /\ UNCHANGED <<tripsVars, storeVars, panelVars, tagVars, effVars>>

(***************************************************************************)
(* The refresh of usePhotoPreviews at mount (types/trips.ts 57-72)         *)
(***************************************************************************)
\* The mount effect has called refresh, which awaits getAllPhotos.
PreviewsMounting == previews = [byIso |-> EmptyPreviews, pc |-> "reading", got |-> <<>>]

\* getAllPhotos returns the photo documents, or [] when the read fails.
PreviewsRead ==
    /\ previews.pc = "reading"
    /\ \E docs \in PhotosRead :
          previews' = [previews EXCEPT !.pc = "read", !.got = SortAsc(docs)]
    /\ UNCHANGED <<tripsVars, storeVars, panelVars, tagVars, call, boot, gate, models>>

\* rebuildFromPhotos(photos): setByIso(next) replaces the map.
PreviewsRebuild ==
    /\ previews.pc = "read"
    /\ previews' = [byIso |-> rebuildFromPhotos([i \in 1..Len(previews.got) |->
                                                   PreviewOfPhoto(previews.got[i])]),
                    pc |-> "done", got |-> <<>>]
    /\ UNCHANGED <<tripsVars, storeVars, panelVars, tagVars, call, boot, gate, models>>

(***************************************************************************)
(* Runs of usePhotoPreviews over bounded photo lists                       *)
(***************************************************************************)
PreviewIsos == {<<>>, <<"F", "R">>, <<"f", "r", " ">>, <<"J", "P">>}
PreviewTimes == 1..2

PreviewLists ==
    UNION {[1..n -> PreviewIsos \X PreviewTimes] : n \in 0..MaxPreviewPhotos}

PreviewsInit ==
    \E l \in PreviewLists :
        call = [fn |-> "usePhotoPreviews",
                photos |-> [i \in DOMAIN l |-> PreviewPhoto(i, l[i][1], l[i][2])],
                registered |-> {}, byIso |-> EmptyPreviews,
                rebuilt |-> FALSE]

\* registerPhoto(photo) for a photo of the list not registered yet.
RegisterPhoto ==
    /\ call.fn = "usePhotoPreviews" /\ ~call.rebuilt
    /\ \E i \in DOMAIN call.photos \ call.registered :
          call' = [call EXCEPT !.registered = @ \cup {i},
                               !.byIso = registerPhoto(@, call.photos[i])]
    /\ UNCHANGED <<tripsVars, storeVars, panelVars, tagVars, effVars>>

\* refresh(): rebuildFromPhotos over the whole list replaces the map.
RefreshPreviews ==
    /\ call.fn = "usePhotoPreviews" /\ ~call.rebuilt
    /\ call' = [call EXCEPT !.registered = DOMAIN call.photos,
                            !.byIso = rebuildFromPhotos(call.photos),
                            !.rebuilt = TRUE]
    /\ UNCHANGED <<tripsVars, storeVars, panelVars, tagVars, effVars>>

(***************************************************************************)
(* Documents handed to Firestore (lib/storage.ts, lib/faceRecognition.ts)  *)
(*                                                                         *)
(* A JavaScript value is a tree: undefined, null, a primitive, an array of *)
(* values, or an object with an ordered list of key/value entries.         *)
(***************************************************************************)
JsUndefined == [t |-> "undefined"]
JsNull == [t |-> "null"]
JsNumber(n) == [t |-> "number", n |-> n]
JsString(s) == [t |-> "string", s |-> s]
JsBoolean(b) == [t |-> "boolean", b |-> b]
\* a string that is the JSON text of a descriptor, and a thumbnail data URL
JsJson(j) == [t |-> "string", json |-> j]
JsThumbnail(box) == [t |-> "string", thumbnailOf |-> box]
JsArray(items) == [t |-> "array", items |-> items]
JsObject(fields) == [t |-> "object", fields |-> fields]
JsField(k, v) == [k |-> k, v |-> v]

\* obj.k: the value of the entry with key k, undefined when there is none
JsGet(obj, k) ==
    IF \E i \in 1..Len(obj.fields) : obj.fields[i].k = k
    THEN obj.fields[CHOOSE i \in 1..Len(obj.fields) : obj.fields[i].k = k].v
    ELSE JsUndefined

\* A plausible slip: arrays are passed through as they are.
RECURSIVE sanitizeObjectsOnly(_)
sanitizeObjectsOnly(value) ==
    IF value.t = "object"
    THEN LET next == [i \in 1..Len(value.fields) |->
                         JsField(value.fields[i].k, sanitizeObjectsOnly(value.fields[i].v))]
         IN  JsObject(SelectSeq(next, LAMBDA f : f.v # JsUndefined))
    ELSE value

\* sanitizeForFirestore: arrays are mapped and filtered, objects rebuilt without
\* the entries that are undefined, everything else (null included) is returned.
RECURSIVE sanitizeForFirestore(_)
sanitizeForFirestore(value) ==
    IF value.t = "array"
    THEN LET next == [i \in 1..Len(value.items) |-> sanitizeForFirestore(value.items[i])]
         IN  JsArray(SelectSeq(next, LAMBDA v : v # JsUndefined))
    ELSE IF value.t = "object"
    THEN LET next == [i \in 1..Len(value.fields) |->
                         JsField(value.fields[i].k, sanitizeForFirestore(value.fields[i].v))]
         IN  JsObject(SelectSeq(next, LAMBDA f : f.v # JsUndefined))
    ELSE value

\* Optional fields of the model's records as JavaScript values.
JsOptional(v) == IF v = NoVal THEN JsUndefined ELSE JsString(v)
JsOptionalNumber(c) == IF c = NoConf THEN JsUndefined ELSE JsNumber(c)

JsFaceTag(tg) ==
    JsObject(<< JsField("memberId", JsString(tg.memberId)),
                JsField("memberName", JsOptional(tg.memberName)),
                JsField("box", JsNumber(tg.box)),
                JsField("confidence", JsOptionalNumber(tg.confidence)) >>)

JsFaceData(f) ==
    JsObject(<< JsField("id", JsNumber(f.id)),
                JsField("thumbnail", JsThumbnail(f.box)),
                JsField("box", JsNumber(f.box)),
                JsField("descriptorString", JsJson(f.descriptorString)),
                JsField("suggestedMemberId", JsOptional(f.suggestedMemberId)),
                JsField("suggestedMemberName", JsOptional(f.suggestedMemberName)),
                JsField("confidence", JsOptionalNumber(f.confidence)),
                JsField("assignedMemberId", JsOptional(f.assignedMemberId)),
                JsField("assignedMemberName", JsOptional(f.assignedMemberName)) >>)

JsFaceTags(tags) == JsArray([i \in 1..Len(tags) |-> JsFaceTag(tags[i])])
JsDetectedFaces(dfs) == JsArray([i \in 1..Len(dfs) |-> JsFaceData(dfs[i])])

\* the `photo` object of savePhoto
JsPhoto(p) ==
    JsObject(<< JsField("id", JsNumber(p.id)),
                JsField("countryIso", JsString(p.countryIso)),
                JsField("url", JsNumber(p.id)),
                JsField("name", JsNumber(p.name)),
                JsField("caption", JsString(p.caption)),
                JsField("faceTags", JsFaceTags(p.faceTags)),
                JsField("detectedFaces", JsDetectedFaces(p.detectedFaces)),
                JsField("createdAt", JsNumber(p.createdAt)) >>)

\* a TripData entry; isHome is the optional legacy flag
JsTrip(tr, isHome) ==
    JsObject(<< JsField("countryName", JsString(tr.countryName)),
                JsField("iso2", JsString(tr.iso2)),
                JsField("continent", JsString(tr.continent)),
                JsField("year", JsString(tr.year)),
                JsField("cities", JsArray(<<>>)),
                JsField("notes", JsString(tr.notes)),
                JsField("photos", JsArray(<<>>)),
                JsField("isHome", isHome) >>)

\* a TripsJson value; homeCountry is optional
JsTripsJson(visited, homeCountry, isHome) ==
    JsObject(<< JsField("profile", JsObject(<< JsField("title", JsString("t")),
                                                JsField("subtitle", JsString("s")) >>)),
                JsField("homeCountry", homeCountry),
                JsField("visited",
                        JsArray([i \in 1..Len(visited) |-> JsTrip(visited[i], isHome)])) >>)

\* Photos as the upload makes them and as addPersonManual and removePerson
\* leave them.
PhotoStates ==
    LET base == {UploadedPhoto(faces, members) :
                    faces \in TagFaces, members \in {TagFamily, <<>>}}
        added(p) == [p EXCEPT
                       !.faceTags = addPersonManualTags(p, TagFamily[2]),
                       !.detectedFaces =
                           IF FirstUnassigned(p.detectedFaces) = 0 THEN p.detectedFaces
                           ELSE addPersonManualFaces(p, TagFamily[2])]
        removed(p) == [p EXCEPT !.faceTags = removePersonTags(p, "m1"),
                                !.detectedFaces = removePersonFaces(p, "m1")]
    IN  base \cup {added(p) : p \in base} \cup {removed(p) : p \in base}

\* familyMembers documents in the store: the current format and the two legacy ones
StoredMembers ==
    LET common == << JsField("id", JsString("m1")), JsField("name", JsString("Ann")),
                     JsField("createdAt", JsNumber(1)) >>
    IN  { JsObject(common \o << JsField("descriptorStrings", JsArray(<<JsJson(ToJson(30))>>)),
                               JsField("photoUrls", JsArray(<<JsString("u1")>>)) >>),
          JsObject(common \o << JsField("descriptorStrings", JsArray(<<>>)),
                               JsField("photoUrls", JsArray(<<>>)) >>),
          JsObject(common \o << JsField("descriptors", JsArray(<<JsNumber(30)>>)),
                               JsField("photoUrl", JsString("u0")) >>),
          JsObject(common \o << JsField("descriptor", JsNumber(30)) >>) }

\* a value that passes `x ||` and `x ?` (the strings of the model are not empty)
JsTruthy(v) == v.t \notin {"undefined", "null"}

\* the document createFamilyMember hands to setDoc
createFamilyMember(name) ==
    JsObject(<< JsField("id", JsString("new")), JsField("name", JsString(name)),
                JsField("descriptorStrings", JsArray(<<>>)),
                JsField("photoUrls", JsArray(<<>>)),
                JsField("createdAt", JsNumber(2)) >>)

\* the document saveFamilyMember hands to setDoc
saveFamilyMember(name, descriptor, photoUrl) ==
    JsObject(<< JsField("id", JsString("new")), JsField("name", JsString(name)),
                JsField("descriptorStrings", JsArray(<<JsJson(ToJson(descriptor))>>)),
                JsField("photoUrls", IF JsTruthy(photoUrl) THEN JsArray(<<photoUrl>>)
                                     ELSE JsArray(<<>>)),
                JsField("createdAt", JsNumber(2)) >>)

\* the document addFamilyMemberPhoto hands to setDoc for the stored `member`
addFamilyMemberPhoto(member, descriptor, photoUrl) ==
    LET strings == JsGet(member, "descriptorStrings")
        legacy == JsGet(member, "descriptors")
        existingDescriptorStrings ==
            IF JsTruthy(strings) THEN strings.items
            ELSE IF JsTruthy(legacy)
                 THEN [i \in 1..Len(legacy.items) |-> JsJson(ToJson(legacy.items[i].n))]
                 ELSE <<>>
        existingPhotoUrls ==
            IF JsTruthy(JsGet(member, "photoUrls")) THEN JsGet(member, "photoUrls").items
            ELSE IF JsTruthy(JsGet(member, "photoUrl")) THEN <<JsGet(member, "photoUrl")>>
            ELSE <<>>
    IN  JsObject(<< JsField("id", JsGet(member, "id")),
                    JsField("name", JsGet(member, "name")),
                    JsField("descriptorStrings",
                            JsArray(Append(existingDescriptorStrings,
                                           JsJson(ToJson(descriptor))))),
                    JsField("photoUrls", JsArray(Append(existingPhotoUrls, photoUrl))),
                    JsField("createdAt", JsGet(member, "createdAt")) >>)

\* the document updateFamilyMemberName hands to setDoc: { ...member, name: newName }
updateFamilyMemberName(member, newName) ==
    IF JsGet(member, "name") = JsUndefined
    THEN JsObject(Append(member.fields, JsField("name", JsString(newName))))
    ELSE JsObject([i \in 1..Len(member.fields) |->
                     IF member.fields[i].k = "name" THEN JsField("name", JsString(newName))
                     ELSE member.fields[i]])

\* Values sanitizeForFirestore is applied to besides the documents above.
JsLeaves == {JsUndefined, JsNull, JsNumber(1)}
JsNested ==
    JsLeaves \cup {JsArray(<<a, b>>) : a \in JsLeaves, b \in JsLeaves}
             \cup {JsObject(<<JsField("a", a)>>) : a \in JsLeaves}
JsDocuments == {JsObject(<<JsField("x", v), JsField("y", w)>>) : v \in JsNested, w \in JsNested}

\* A write: the value the path built, and the document it hands to the store.
Written(fn, arg, sanitized, out) ==
    /\ call' = [fn |-> fn, arg |-> arg, sanitized |-> sanitized, out |-> out]
    /\ UNCHANGED <<tripsVars, storeVars, panelVars, tagVars, effVars>>

\* saveTripsData(data)
SaveTripsData ==
    \E visited \in InitialVisited, homeCountry \in {JsUndefined, JsString(<<"F", "R">>)},
       isHome \in {JsUndefined, JsBoolean(TRUE)} :
        LET d == JsTripsJson(visited, homeCountry, isHome)
        IN  Written("saveTripsData", d, TRUE, sanitizeForFirestore(d))

\* savePhoto: setDoc(..., sanitizeForFirestore(photo))
SavePhoto ==
    \E p \in PhotoStates :
        Written("savePhoto", JsPhoto(p), TRUE, sanitizeForFirestore(JsPhoto(p)))

\* updatePhotoCaption / updatePhotoFaceTags / updatePhotoDetectedFaces
UpdatePhotoField ==
    \E p \in PhotoStates :
        \E d \in { JsObject(<<JsField("caption", JsString(p.caption))>>),
                   JsObject(<<JsField("faceTags", JsFaceTags(p.faceTags))>>),
                   JsObject(<<JsField("detectedFaces", JsDetectedFaces(p.detectedFaces))>>) } :
            Written("updatePhoto", d, TRUE, sanitizeForFirestore(d))

\* createFamilyMember(name) and saveFamilyMember(name, descriptor, photoUrl?)
CreateFamilyMember ==
    \E name \in {"Ann", "Bob"} :
        \/ Written("createFamilyMember", JsString(name), FALSE, createFamilyMember(name))
        \/ \E descriptor \in {0, 30}, photoUrl \in {JsUndefined, JsString("u2")} :
             Written("saveFamilyMember", JsString(name), FALSE,
                     saveFamilyMember(name, descriptor, photoUrl))

\* addFamilyMemberPhoto(memberId, descriptor, photoUrl) on a stored member
AddFamilyMemberPhoto ==
    \E member \in StoredMembers, descriptor \in {0, 30} :
        Written("addFamilyMemberPhoto", member, FALSE,
                addFamilyMemberPhoto(member, descriptor, JsString("u2")))

\* updateFamilyMemberName(memberId, newName) on a stored member
UpdateFamilyMemberName ==
    \E member \in StoredMembers, newName \in {"Ann", "Bob"} :
        Written("updateFamilyMemberName", member, FALSE,
                updateFamilyMemberName(member, newName))

\* sanitizeForFirestore applied to a nested value
CallSanitize ==
    \E d \in JsDocuments : Written("sanitizeForFirestore", d, TRUE, sanitizeForFirestore(d))

(***************************************************************************)
(* Specifications                                                          *)
(***************************************************************************)
\* The trips document alone.
InitTrips ==
    /\ TripsInit /\ StoreInit /\ PanelInit /\ family = <<>> /\ tag = NoTagging /\ mq = NoMatchCall /\ AuxInit

NextTrips == LoadTrips \/ AddCountry \/ RemoveCountry \/ UpdateTrip \/ CallBeforeLoad

SpecTrips == InitTrips /\ [][NextTrips]_vars

\* Upload batches into the photo store, the panel showing one country.
InitUpload ==
    /\ TripsInit /\ StoreInit
    /\ photos = <<>> /\ loads = {} /\ up = IdleUpload /\ del = IdleDelete
    /\ dlast = NoDeletion /\ alerts = 0
    /\ trip \in Countries
    /\ family \in Families
    /\ tag = NoTagging /\ mq = NoMatchCall /\ AuxInit

NextUpload == StartUploadAny \/ UpDetect \/ UpUploadBytes \/ UpSetDoc

SpecUpload == InitUpload /\ [][NextUpload]_vars

\* The country panel: photo loads, plain uploads and deletions, interleaved.
InitPanel ==
    /\ TripsInit /\ StoreInit /\ PanelInit /\ family = <<>> /\ tag = NoTagging /\ mq = NoMatchCall /\ AuxInit

NextPanel ==
    \/ SelectCountry \/ ClosePanel \/ ServerQuery \/ LoadApply
    \/ StartUploadPlain \/ UpDetect \/ UpUploadBytes \/ UpSetDoc
    \/ DeleteStart \/ DeleteObject \/ DeleteDoc

SpecPanel == InitPanel /\ [][NextPanel]_vars

\* Tagging on one uploaded photo shown in the photo view.
InitTag ==
    /\ TripsInit
    /\ family = TagFamily
    /\ \E faces \in TagFaces, members \in MembersRead :
         /\ photoDocs = {UploadedPhoto(faces, members)}
         /\ photos = <<UploadedPhoto(faces, members)>>
    /\ blobs = {1} /\ createdLog = <<>> /\ nextId = 2
    /\ trip = "FR" /\ loads = {} /\ up = IdleUpload /\ del = IdleDelete
    /\ dlast = NoDeletion /\ alerts = 0
    /\ \E fm \in MembersRead : tag = [NoTagging EXCEPT !.familyMembers = fm]
    /\ mq = NoMatchCall /\ AuxInit

NextTag == OpenPhoto \/ ClosePhoto \/ AddPersonManual \/ RemovePerson

SpecTag == InitTag /\ [][NextTag]_vars

\* Every tagging handler on a photo as the upload made it.
InitTagging == InitTag

NextTagging ==
    \/ OpenPhoto \/ ClosePhoto \/ AddPersonManual \/ RemovePerson
    \/ OpenTagger \/ CloseTagger \/ SaveTagger
    \/ AutoApplySuggestions \/ UpdateCaption

SpecTagging == InitTagging /\ [][NextTagging]_vars

\* openTagger calls that overlap each other and the other handlers of the
\* photo view.
InitOverlap == InitTag

NextOverlap ==
    \/ OpenPhoto \/ ClosePhoto \/ AddPersonManual \/ RemovePerson
    \/ OpenTaggerBegins \/ OpenTaggerEnds

SpecOverlap == InitOverlap /\ [][NextOverlap]_vars

\* The map previews next to uploads and deletions in the panel of one country.
InitMap ==
    /\ TripsInit /\ StoreInit
    /\ photos = <<>> /\ loads = {} /\ up = IdleUpload /\ del = IdleDelete
    /\ dlast = NoDeletion /\ alerts = 0
    /\ trip \in Countries
    /\ family = <<>> /\ tag = NoTagging /\ mq = NoMatchCall
    /\ call = NoCall /\ LoadDone /\ GateIdle /\ ModelsInit
    /\ PreviewsMounting

NextMap ==
    \/ StartUploadPlain \/ UpDetect \/ UpUploadBytes \/ UpSetDoc
    \/ DeleteStart \/ DeleteObject \/ DeleteDoc
    \/ PreviewsRead \/ PreviewsRebuild

SpecMap == InitMap /\ [][NextMap]_vars

\* Assignments made and cleared by the tagging handlers, and matches in between.
InitTraining == InitTag

NextTraining ==
    \/ OpenPhoto \/ ClosePhoto \/ AddPersonManual \/ RemovePerson
    \/ MatchLater

SpecTraining == InitTraining /\ [][NextTraining]_vars

\* matchFaces over bounded families, photo collections and detections.
InitMatch ==
    /\ TripsInit /\ PanelInit
    /\ family \in MatchFamilies
    /\ photoDocs \in MatchDocs
    /\ blobs = {d.id : d \in photoDocs} /\ createdLog = <<>> /\ nextId = 2
    /\ tag = NoTagging /\ mq = NoMatchCall /\ AuxInit

NextMatch == CallMatchFaces

SpecMatch == InitMatch /\ [][NextMatch]_vars

\* getTravelStats over visited lists of every length from 0 to 195.
InitStats ==
    /\ StoreInit /\ PanelInit /\ family = <<>> /\ tag = NoTagging /\ mq = NoMatchCall
    /\ AuxInit
    /\ tlast = [op |-> "none", arg |-> <<>>, pre |-> <<>>]
    /\ \/ data = NullData
       \/ \E n \in 0..TOTAL_COUNTRIES_IN_WORLD, asia \in BOOLEAN :
             data = [null |-> FALSE, visited |-> StatsVisited(n, asia)]

NextStats == CallGetTravelStats

SpecStats == InitStats /\ [][NextStats]_vars

\* The documents every write path hands to the store.
InitWrites ==
    /\ TripsInit /\ StoreInit /\ PanelInit /\ family = <<>> /\ tag = NoTagging
    /\ mq = NoMatchCall /\ AuxInit

NextWrites ==
    \/ SaveTripsData \/ SavePhoto \/ UpdatePhotoField \/ CreateFamilyMember
    \/ AddFamilyMemberPhoto \/ UpdateFamilyMemberName \/ CallSanitize

SpecWrites == InitWrites /\ [][NextWrites]_vars

\* The converter applied once and twice to every input file.
InitConvert ==
    /\ TripsInit /\ StoreInit /\ PanelInit /\ family = <<>> /\ tag = NoTagging
    /\ mq = NoMatchCall /\ AuxInit

NextConvert == CallConvertToJpeg

SpecConvert == InitConvert /\ [][NextConvert]_vars

\* The load effect, the store document and the edits that follow the load.
InitLoad ==
    /\ TripsInit /\ StoreInit /\ PanelInit /\ family = <<>> /\ tag = NoTagging
    /\ mq = NoMatchCall /\ call = NoCall /\ LoadInit /\ GateIdle /\ ModelsInit
    /\ PreviewsIdle

NextLoad ==
    \/ LoadStart \/ LoadCancel \/ GetTripsDataReturns \/ FetchSeedReturns
    \/ SaveSeedReturns \/ OtherClientSaves \/ PersistTrips
    \/ AddCountry \/ RemoveCountry

SpecLoad == InitLoad /\ [][NextLoad]_vars

\* The password gate from its mount on.
InitGate ==
    /\ TripsInit /\ StoreInit /\ PanelInit /\ family = <<>> /\ tag = NoTagging
    /\ mq = NoMatchCall /\ call = NoCall /\ LoadDone /\ GateInit /\ ModelsInit
    /\ PreviewsIdle

NextGate == GateMount \/ TypePassword \/ ClickSubmit \/ PressEnter \/ DigestReturns

SpecGate == InitGate /\ [][NextGate]_vars

\* The preview map built by registering the photos one by one, or rebuilt.
InitPreviews ==
    /\ TripsInit /\ StoreInit /\ PanelInit /\ family = <<>> /\ tag = NoTagging
    /\ mq = NoMatchCall /\ LoadDone /\ GateIdle /\ ModelsInit /\ PreviewsInit
    /\ PreviewsIdle

NextPreviews == RegisterPhoto \/ RefreshPreviews

SpecPreviews == InitPreviews /\ [][NextPreviews]_vars

\* Calls of loadModels, overlapping in every way.
InitModels ==
    /\ TripsInit /\ StoreInit /\ PanelInit /\ family = <<>> /\ tag = NoTagging
    /\ mq = NoMatchCall /\ call = NoCall /\ LoadDone /\ GateIdle /\ ModelsInit
    /\ PreviewsIdle

NextModels == LoadModelsCall \/ LoadModelsSettles

SpecModels == InitModels /\ [][NextModels]_vars

(***************************************************************************)
(* Properties of the trips document                                        *)
(***************************************************************************)
Listed(n) == \E i \in 1..Len(ALL_COUNTRIES) : ALL_COUNTRIES[i].iso2 = n

Occurrences(v, t) == Cardinality({i \in 1..Len(v) : v[i] = t})

\* post is pre with exactly one more entry, whose normalized code is n
AddsOneEntry(pre, post, n) ==
    /\ Len(post) = Len(pre) + 1
    /\ Cardinality({i \in 1..Len(post) : normalizeIso2(post[i].iso2) = n}) = 1
    /\ \A i \in 1..Len(pre) : Occurrences(post, pre[i]) = Occurrences(pre, pre[i])

\* C3 (as amended): addCountry(code) with a code that is absent from visited and
\* listed in ALL_COUNTRIES adds exactly one entry for it and changes no other
\* entry; with a code that is present (after trim and upper-casing), empty or
\* not listed it leaves visited unchanged; and a second call with the same code
\* changes nothing.
AddCountryContract ==
    /\ tlast.op = "addCountry" =>
          LET n == normalizeIso2(tlast.arg)
          IN  IF n # <<>> /\ ~HasCode(tlast.pre, n) /\ Listed(n)
              THEN AddsOneEntry(tlast.pre, data.visited, n)
              ELSE data.visited = tlast.pre
    /\ \A c \in CodeInputs :
          addCountry(addCountry(data.visited, c), c) = addCountry(data.visited, c)

\* C3 witness: a listed, absent code was added next to existing entries, and
\* sorted in front of one of them.
AddCountryWitness ==
    /\ tlast.op = "addCountry"
    /\ tlast.pre # <<>>
    /\ Len(data.visited) = Len(tlast.pre) + 1
    /\ normalizeIso2(data.visited[1].iso2) = normalizeIso2(tlast.arg)

\* C3 as stated: any country code that is absent from visited gets one entry.
AddCountryAnyAbsentCode ==
    tlast.op = "addCountry" =>
        LET n == normalizeIso2(tlast.arg)
        IN  (n # <<>> /\ ~HasCode(tlast.pre, n)) => AddsOneEntry(tlast.pre, data.visited, n)

\* C4 as stated: no two entries of visited share a normalized country code.
UniqueCountryCodes ==
    \A i, j \in 1..Len(data.visited) :
        i # j => normalizeIso2(data.visited[i].iso2) # normalizeIso2(data.visited[j].iso2)

(***************************************************************************)
(* Properties of an upload batch                                           *)
(***************************************************************************)
ImageFiles == {j \in 1..Len(up.files) : up.files[j].image}
FailedFiles == {j \in 1..Len(up.files) : up.outcome[j] = "failed"}
LogNames == {createdLog[k].name : k \in 1..Len(createdLog)}

\* C1: when a batch is over, it created one photo document per image file if no
\* savePhoto failed and fewer otherwise; no file has two documents and a failed
\* file has none.
UploadBatchCount ==
    up.pc = "done" =>
        /\ FailedFiles = {} =>
              /\ Len(createdLog) = Cardinality(ImageFiles)
              /\ LogNames = ImageFiles
        /\ FailedFiles # {} => Len(createdLog) < Cardinality(ImageFiles)
        /\ \A k, m \in 1..Len(createdLog) :
              k # m => /\ createdLog[k].name # createdLog[m].name
                       /\ createdLog[k].photo.id # createdLog[m].photo.id
        /\ \A k \in 1..Len(createdLog) :
              Cardinality({d \in photoDocs : d.id = createdLog[k].photo.id}) = 1
        /\ \A j \in FailedFiles :
              /\ j \notin LogNames
              /\ ~\E d \in photoDocs : d.id = up.attempt[j]

\* C1 witness: a batch of two images ended with the first saved and the second failed
\* at setDoc (its blob was uploaded).
UploadBatchWitness ==
    /\ up.pc = "done"
    /\ Len(up.files) = 2
    /\ up.outcome = <<"saved", "failed">>
    /\ up.attempt[2] \in blobs

\* C2 as stated: a failure of one file is isolated, every image file of the batch
\* has been processed when the batch is over.
UploadFailureIsolated ==
    up.pc = "done" => \A j \in ImageFiles : up.outcome[j] # "pending"

\* C9: a photo saved from an image in which detection found no face has no
\* detected faces and no face tags, in the store and in memory, and its badge is empty.
ZeroFacesUpload ==
    \A k \in 1..Len(createdLog) :
        LET e == createdLog[k]
        IN  (e.file.det = "ok" /\ e.file.faces = <<>>) =>
                /\ e.photo.detectedFaces = <<>>
                /\ e.photo.faceTags = <<>>
                /\ peopleCount(e.photo) = 0
                /\ Badge(e.photo) = <<>>
                /\ e.photo \in photoDocs
                /\ e.photo \in Range(photos)

\* C9 witness: such a photo was saved while family members exist.
ZeroFacesWitness ==
    /\ family # <<>>
    /\ \E k \in 1..Len(createdLog) :
          /\ createdLog[k].file.det = "ok"
          /\ createdLog[k].file.faces = <<>>
          /\ createdLog[k].photo \in photoDocs

(***************************************************************************)
(* Properties of photo deletion                                            *)
(***************************************************************************)
\* C5 as stated: a photo whose deletePhoto succeeded is in no later
\* getPhotosForCountry result and not in the panel's in-memory list.
DeletedStaysGone ==
    \A id \in dlast.done :
        /\ \A c \in Countries : id \notin Ids(getPhotosForCountry(photoDocs, c))
        /\ id \notin Ids(photos)

\* C6: deletePhoto removes blob and document when both steps succeed; a failed
\* blob deletion is raised and leaves the document; a failed document deletion
\* is raised and does not bring the blob back.
DeleteOutcome ==
    /\ dlast.result = "ok" =>
          /\ dlast.id \notin blobs
          /\ ~\E d \in photoDocs : d.id = dlast.id
          /\ ~dlast.raised
    /\ dlast.result = "blobFailed" =>
          /\ dlast.raised
          /\ alerts > 0
          /\ dlast.docBefore => \E d \in photoDocs : d.id = dlast.id
    /\ dlast.result = "docFailed" =>
          /\ dlast.raised
          /\ alerts > 0
          /\ dlast.id \notin blobs
          /\ dlast.docBefore => \E d \in photoDocs : d.id = dlast.id

\* C6 witness: a document deletion failed after the blob was deleted.
DeleteOutcomeWitness ==
    /\ dlast.result = "docFailed"
    /\ dlast.docBefore
    /\ dlast.id \notin blobs
    /\ del.pc = "idle"

(***************************************************************************)
(* Properties of the tagging handlers                                      *)
(***************************************************************************)
PhotoNow(id) == photos[CHOOSE i \in 1..Len(photos) : photos[i].id = id]
DocNow(id) == CHOOSE d \in photoDocs : d.id = id

\* The last tagging call ran on a photo and every write it made succeeded.
TagCallSucceeded(op) ==
    /\ tag.last.op = op
    /\ tag.last.pre # <<>>
    /\ tag.last.writes > 0
    /\ tag.last.tagsOk
    /\ tag.last.writes = 2 => tag.last.facesOk

\* C7: addPersonManual for a family member who has no FaceTag on the active photo
\* appends exactly one FaceTag for that member (the tags before it are kept, in the
\* store and in memory); if the photo has a DetectedFace without assignedMemberId,
\* the first such face gets the member's id and name and no other face changes;
\* if the member already has a FaceTag on the photo, nothing is written.
AddPersonManualContract ==
    (tag.last.op = "addPersonManual" /\ tag.last.pre # <<>> /\ tag.last.known) =>
        LET pre == tag.last.pre[1]
            m   == tag.last.arg
            now == PhotoNow(pre.id)
            doc == DocNow(pre.id)
            u   == FirstUnassigned(pre.detectedFaces)
            n   == Len(pre.faceTags)
        IN  IF Tagged(pre, m)
            THEN tag.last.writes = 0 /\ now = pre /\ <<doc>> = tag.last.preDoc
            ELSE TagCallSucceeded("addPersonManual") =>
                   /\ Len(now.faceTags) = n + 1
                   /\ SubSeq(now.faceTags, 1, n) = pre.faceTags
                   /\ now.faceTags[n + 1].memberId = m
                   /\ doc.faceTags = now.faceTags
                   /\ Len(now.detectedFaces) = Len(pre.detectedFaces)
                   /\ \A i \in 1..Len(pre.detectedFaces) :
                        IF i = u
                        THEN now.detectedFaces[i] =
                                [pre.detectedFaces[i] EXCEPT
                                    !.assignedMemberId = m,
                                    !.assignedMemberName = NameOf(tag.familyMembers, m)]
                        ELSE now.detectedFaces[i] = pre.detectedFaces[i]
                   /\ doc.detectedFaces = now.detectedFaces

\* A member without a tag was added to a photo with two unassigned faces, which
\* already carried another member's tag, and both writes succeeded.
AddPersonManualWitness ==
    /\ TagCallSucceeded("addPersonManual")
    /\ tag.last.writes = 2
    /\ ~Tagged(tag.last.pre[1], tag.last.arg)
    /\ Len(tag.last.pre[1].faceTags) > 0
    /\ Cardinality({i \in 1..Len(tag.last.pre[1].detectedFaces) :
                      tag.last.pre[1].detectedFaces[i].assignedMemberId = NoVal}) = 2

\* C8: removePerson(memberId) on the active photo removes every FaceTag with that
\* memberId and clears assignedMemberId and assignedMemberName on every
\* DetectedFace assigned to that member, in the store and in the in-memory photo;
\* all other tags and faces are unchanged.
RemovePersonContract ==
    TagCallSucceeded("removePerson") =>
        LET pre == tag.last.pre[1]
            m   == tag.last.arg
            now == PhotoNow(pre.id)
            doc == DocNow(pre.id)
        IN  /\ now.faceTags = SelectSeq(pre.faceTags, LAMBDA t : t.memberId # m)
            /\ doc.faceTags = now.faceTags
            /\ Len(now.detectedFaces) = Len(pre.detectedFaces)
            /\ \A i \in 1..Len(pre.detectedFaces) :
                 IF pre.detectedFaces[i].assignedMemberId = m
                 THEN now.detectedFaces[i] =
                         [pre.detectedFaces[i] EXCEPT !.assignedMemberId = NoVal,
                                                      !.assignedMemberName = NoVal]
                 ELSE now.detectedFaces[i] = pre.detectedFaces[i]
            /\ doc.detectedFaces = now.detectedFaces

\* A member with two tags and two assigned faces was removed from a photo that
\* also carried another member's tag, and both writes succeeded.
RemovePersonWitness ==
    /\ TagCallSucceeded("removePerson")
    /\ CountIf(tag.last.pre[1].faceTags, LAMBDA t : t.memberId = tag.last.arg) = 2
    /\ Len(tag.last.pre[1].faceTags) = 3
    /\ \A i \in 1..2 : tag.last.pre[1].detectedFaces[i].assignedMemberId = tag.last.arg

(***************************************************************************)
(* Properties of matchFaces                                                *)
(***************************************************************************)
\* The member has no reference descriptor: none stored in any of the three
\* formats and none from a face assigned to it in the photos read.
NoReference(member, docs) ==
    /\ member.descriptorStrings = <<>>
    /\ member.descriptors = <<>>
    /\ member.descriptor = <<>>
    /\ TrainingDescriptors(docs, member.id) = <<>>

\* C10: matchFaces called while the family-member set is empty, or while no member
\* has any reference descriptor, returns the input detections unchanged: same
\* order, descriptors and boxes, and no matchedMember or confidence on any of them.
MatchFacesWithoutReferences ==
    (/\ mq.called
     /\ \A i \in 1..Len(mq.members) : NoReference(mq.members[i], mq.docs)) =>
        /\ ~mq.threw
        /\ Len(mq.result) = Len(mq.faces)
        /\ \A i \in 1..Len(mq.faces) :
             /\ mq.result[i].descriptor = mq.faces[i].descriptor
             /\ mq.result[i].box = mq.faces[i].box
             /\ mq.result[i].matchedMember = NoVal
             /\ mq.result[i].confidence = NoConf

\* Two detections were matched against two members without descriptors while the
\* photos held a face assigned to nobody on the member list.
MatchFacesWithoutReferencesWitness ==
    /\ mq.called
    /\ Len(mq.members) = 2
    /\ \A i \in 1..Len(mq.members) : NoReference(mq.members[i], mq.docs)
    /\ mq.docs # {}
    /\ Len(mq.faces) = 2
    /\ mq.result = mq.faces

\* Every reference descriptor of the member, stored on it or taken from the
\* photos read, is exactly d, and there is at least one.
OnlyReference(member, docs, d) ==
    LET strings == member.descriptorStrings
        own == member.descriptors \o member.descriptor
        trained == TrainingDescriptors(docs, member.id)
    IN  /\ Len(strings) + Len(own) + Len(trained) > 0
        /\ \A i \in 1..Len(strings) : ParseOk(strings[i]) /\ strings[i].val = d
        /\ \A i \in 1..Len(own) : own[i] = d
        /\ \A i \in 1..Len(trained) : trained[i] = d

\* C11: when the identity set is a single member whose only reference descriptor
\* is exactly the descriptor of a detected face (distance 0), matchFaces returns
\* that face with matchedMember = that member and confidence = 1 - 0 = 1.
MatchFacesExactDescriptor ==
    (mq.called /\ Len(mq.members) = 1) =>
        \A i \in 1..Len(mq.faces) :
            OnlyReference(mq.members[1], mq.docs, mq.faces[i].descriptor) =>
                /\ ~mq.threw
                /\ mq.result[i].matchedMember = mq.members[1].id
                /\ mq.result[i].confidence = 100
                /\ mq.result[i].descriptor = mq.faces[i].descriptor
                /\ mq.result[i].box = mq.faces[i].box

\* A face with the stored descriptor of the only member (kept as a JSON string)
\* was matched next to a face with another descriptor.
MatchFacesExactDescriptorWitness ==
    /\ mq.called
    /\ Len(mq.members) = 1
    /\ mq.members[1].descriptorStrings # <<>>
    /\ Len(mq.faces) = 2
    /\ OnlyReference(mq.members[1], mq.docs, mq.faces[1].descriptor)
    /\ mq.faces[2].descriptor # mq.faces[1].descriptor
    /\ mq.result[1].confidence = 100

(***************************************************************************)
(* Properties of the travel statistics                                     *)
(***************************************************************************)
\* C12: getTravelStats reports countriesVisited = number of visited entries and
\* worldPercentage = 100 * countriesVisited / 195 rounded to the nearest integer,
\* halves up, for every count from 0 to 195; 10 visited countries give 5.
WorldPercentageRounded ==
    call.fn = "getTravelStats" =>
        LET n == Len(data.visited)
            p == call.out.worldPercentage
        IN  /\ call.out.countriesVisited = n
            /\ 195 * (2 * p - 1) <= 200 * n
            /\ 200 * n < 195 * (2 * p + 1)
            /\ n = 0 => p = 0
            /\ n = 10 => p = 5
            /\ n = 195 => p = 100

\* The statistics of ten visited countries were computed and gave 5 percent.
WorldPercentageWitness ==
    /\ call.fn = "getTravelStats"
    /\ Len(data.visited) = 10
    /\ call.out.worldPercentage = 5
    /\ call.out.countriesVisited = 10

(***************************************************************************)
(* Properties of the documents handed to the store                         *)
(***************************************************************************)
RECURSIVE Flatten(_)
Flatten(ss) == IF ss = <<>> THEN <<>> ELSE Head(ss) \o Flatten(Tail(ss))

\* the undefined, null and primitive values of a tree, in order
RECURSIVE JsLeafValues(_)
JsLeafValues(v) ==
    IF v.t = "array" THEN Flatten([i \in 1..Len(v.items) |-> JsLeafValues(v.items[i])])
    ELSE IF v.t = "object"
    THEN Flatten([i \in 1..Len(v.fields) |-> JsLeafValues(v.fields[i].v)])
    ELSE <<v>>

WritePaths == {"saveTripsData", "savePhoto", "updatePhoto", "createFamilyMember",
               "saveFamilyMember", "addFamilyMemberPhoto", "updateFamilyMemberName",
               "sanitizeForFirestore"}

IsWebpOrHeic(file) ==
    \/ toLowerCase(file.type) \in {"image/webp", "image/heic", "image/heif"}
    \/ toLowerCase(file.name.ext) \in {".webp", ".heic", ".heif"}

\* C14, first half: a file that is neither WebP nor HEIC/HEIF comes back as
\* the very same file: same bytes, same name, same type.
ConvertLeavesOtherFiles ==
    (call.fn = "convertToJpegIfNeeded" /\ ~IsWebpOrHeic(call.arg))
        => call.out = call.arg

ConvertLeavesOtherFilesWitness ==
    /\ call.fn = "convertToJpegIfNeeded"
    /\ ~IsWebpOrHeic(call.arg)
    /\ call.arg.name.ext = ".jpg"
    /\ call.out = call.arg

\* C14: the conversion is idempotent for every input file: with the
\* environment letting both conversions through, converting the returned
\* file again returns that same file.
ConvertIdempotent ==
    (call.fn = "convertToJpegIfNeeded" /\ call.envOk = <<ConvertEnvOk, ConvertEnvOk>>)
        => call.twice = call.out

(***************************************************************************)
(* Properties of the load effect                                           *)
(***************************************************************************)
\* C15: the seed is written to the trips document only when the store holds
\* no trips document: in no execution of the load effect (a failed read and
\* an effect cancelled before the read returned included) does the seed
\* replace an existing cloud document.
SeedNeverOverwritesCloud == boot.seeded => ~boot.seededOver.exists

(***************************************************************************)
(* Properties of the password gate                                         *)
(***************************************************************************)
\* C16: the children are rendered only if the session flag was already set,
\* or a submitted password equals the configured plaintext, or its digest
\* equals the configured hash; with neither configured, no submitted input
\* ever sets the authenticated state.
GateOpensOnlyForPassword ==
    /\ Renders = "children" =>
          \/ gate.flagAtMount
          \/ \E input \in gate.submitted :
                \/ gate.config.plain # <<>> /\ input = gate.config.plain
                \/ gate.config.hash # <<>> /\ sha256Base64(input) = gate.config.hash
    /\ ~canCheck(gate.config) => (gate.authed => gate.flagAtMount)

\* A wrong password was submitted without a configured secret (by Enter), a
\* right one with it, and the gate opened only for the latter.
GateOpensWitness ==
    /\ Renders = "children" /\ ~gate.flagAtMount
    /\ gate.config.plain = <<>>
    /\ <<"c">> \in gate.submitted /\ <<"b">> \in gate.submitted

GateUnconfiguredWitness ==
    /\ ~canCheck(gate.config) /\ gate.submitted # {} /\ gate.error /\ ~gate.authed

(***************************************************************************)
(* Properties of the photo previews                                        *)
(***************************************************************************)
\* C17: from an empty map, registerPhoto once per photo, in any order,
\* yields for every country the count and preview of rebuildFromPhotos over
\* the whole list.
RegisterRefinesRebuild ==
    (call.fn = "usePhotoPreviews" /\ call.registered = DOMAIN call.photos)
        => call.byIso = rebuildFromPhotos(call.photos)

\* The counts agree in every order; only the preview of equal-time photos
\* depends on it.
RegisterCountsAsRebuild ==
    (call.fn = "usePhotoPreviews" /\ call.registered = DOMAIN call.photos)
        => /\ DOMAIN call.byIso = DOMAIN rebuildFromPhotos(call.photos)
           /\ \A k \in DOMAIN call.byIso :
                 /\ call.byIso[k].count = rebuildFromPhotos(call.photos)[k].count
                 /\ call.byIso[k].createdAt
                       = rebuildFromPhotos(call.photos)[k].createdAt

(***************************************************************************)
(* Properties of the tagging handlers                                      *)
(***************************************************************************)
AssignedFacesAreTagged(d) ==
    \A i \in 1..Len(d.detectedFaces) :
        d.detectedFaces[i].assignedMemberId # NoVal
            => \E k \in 1..Len(d.faceTags) :
                  d.faceTags[k].memberId = d.detectedFaces[i].assignedMemberId

PhotoInList(id) == photos[CHOOSE i \in 1..Len(photos) : photos[i].id = id]

\* C20: whenever a store operation fails during a caption update or
\* autoApplySuggestions, the user is shown an alert and the in-memory list
\* keeps for the affected photo the value it had before.
FailureAlertsAndKeepsMemory ==
    (tag.last.op \in {"handleUpdateCaption", "autoApplySuggestions"}
        /\ tag.last.writes > 0 /\ ~tag.last.tagsOk)
        => /\ alerts > tag.last.alerts
           /\ PhotoInList(tag.last.pre[1].id) = tag.last.pre[1]

\* The caption half holds: a failed caption write is alerted and leaves the
\* list as it was.
CaptionFailureAlertsAndKeepsMemory ==
    (tag.last.op = "handleUpdateCaption" /\ tag.last.writes > 0 /\ ~tag.last.tagsOk)
        => /\ alerts > tag.last.alerts
           /\ PhotoInList(tag.last.pre[1].id) = tag.last.pre[1]

(***************************************************************************)
(* Properties of loadModels                                                *)
(***************************************************************************)
WeightLoads == {i \in 1..Len(models.calls) : models.calls[i].pc = "loaded"}

\* C19: across any interleaving of loadModels calls (the background call of
\* handleFileSelect overlapping the call of detectFaces included) the model
\* weights are loaded at most once per process lifetime.
ModelsLoadedAtMostOnce == Cardinality(WeightLoads) <= 1

\* The other half holds: no load is started after one has succeeded, a call
\* made once the flag is set returns at once.
NoLoadOnceFlagSet ==
    [][\A k \in 1..Len(models'.calls) :
          (k > Len(models.calls) /\ models.loaded)
              => models'.calls[k].pc = "returned"]_vars

(***************************************************************************)
(* Properties of a failed face detection or matching at upload             *)
(***************************************************************************)
\* C21 as stated: a photo saved from a file whose face detection or matching
\* threw has an empty detectedFaces list and an empty faceTags list, and is in
\* the store and in the panel's list.
FaceFailureSavesNoFaces ==
    \A k \in 1..Len(createdLog) :
        LET e == createdLog[k]
        IN  e.threw # "none" =>
                /\ e.photo.detectedFaces = <<>>
                /\ e.photo.faceTags = <<>>
                /\ e.photo \in photoDocs
                /\ e.photo \in Range(photos)

\* The part of C21 that holds: when the image load or detectFaces threw, the
\* saved photo has no detected faces and no tags; when matchFaces threw, it has
\* no tags and its detected faces carry no suggestion and no assignment.
DetectionFailureSavesNoFaces ==
    \A k \in 1..Len(createdLog) :
        LET e == createdLog[k]
        IN  /\ e.threw = "detect" =>
                /\ e.photo.detectedFaces = <<>>
                /\ e.photo.faceTags = <<>>
                /\ e.photo \in photoDocs
            /\ e.threw = "match" =>
                /\ e.photo.detectedFaces = FaceDataOfFaces(e.file.faces)
                /\ e.photo.faceTags = <<>>
                /\ e.photo \in photoDocs

DetectionFailureWitness ==
    /\ \E k \in 1..Len(createdLog) : createdLog[k].threw = "detect"
    /\ \E k \in 1..Len(createdLog) : createdLog[k].threw = "match"

\* The catch of the detection block shows no alert: the step from detection to
\* the upload of the bytes leaves the alerts as they are.
FaceFailureShowsNoAlert ==
    [][up.pc = "detect" => alerts' = alerts]_vars

(***************************************************************************)
(* Properties of matchFaces over stored data that does not parse           *)
(***************************************************************************)
\* The stored data without the descriptors that cannot be parsed.
ParsableStrings(member) ==
    [member EXCEPT !.descriptorStrings = SelectSeq(@, ParseOk)]

ParsableMembers(members) == [i \in 1..Len(members) |-> ParsableStrings(members[i])]

ParsableFaces(d) ==
    [d EXCEPT !.detectedFaces = SelectSeq(@, LAMBDA f : ParseOk(f.descriptorString))]

ParsableDocs(docs) == {ParsableFaces(d) : d \in docs}

HasUnparsable(members, docs) ==
    members # ParsableMembers(members) \/ docs # ParsableDocs(docs)

\* C22 as stated: a stored descriptor that cannot be parsed, in a photo's detected
\* faces or in a family member's descriptorStrings, is skipped individually:
\* matchFaces completes, with the result of matching against the rest.
UnparsableDescriptorsSkipped ==
    (mq.called /\ HasUnparsable(mq.members, mq.docs)) =>
        /\ ~mq.threw
        /\ mq.result = matchFaces(ParsableMembers(mq.members), ParsableDocs(mq.docs), mq.faces)

\* The part of C22 that holds: an unparsable descriptorString of a photo's
\* detected face is skipped and the others are matched against.
UnparsablePhotoDescriptorsSkipped ==
    (/\ mq.called
     /\ mq.members = ParsableMembers(mq.members)
     /\ mq.docs # ParsableDocs(mq.docs)) =>
        /\ ~mq.threw
        /\ mq.result = matchFaces(mq.members, ParsableDocs(mq.docs), mq.faces)

UnparsablePhotoDescriptorsWitness ==
    /\ mq.called
    /\ mq.members = ParsableMembers(mq.members)
    /\ mq.docs # ParsableDocs(mq.docs)
    /\ \E i \in 1..Len(mq.faces) : mq.result[i].confidence = 100

(***************************************************************************)
(* Properties of the reference descriptors of matchFaces                   *)
(***************************************************************************)
\* The descriptors a matchFaces call held for a member; none when the member
\* got no label.
RefsOf(refs, memberId) ==
    IF \E k \in 1..Len(refs) : refs[k].label = memberId
    THEN refs[CHOOSE k \in 1..Len(refs) : refs[k].label = memberId].descriptors
    ELSE <<>>

\* The detected faces of the photos `docs` that are assigned to memberId and
\* whose descriptor string parses, as pairs of a photo and a position in its
\* detectedFaces.
AssignedFaces(docs, memberId) ==
    {it \in UNION {{<<d, j>> : j \in 1..Len(d.detectedFaces)} : d \in docs} :
        /\ it[1].detectedFaces[it[2]].assignedMemberId = memberId
        /\ ParseOk(it[1].detectedFaces[it[2]].descriptorString)}

AssignedDescriptor(it) == FromJson(it[1].detectedFaces[it[2]].descriptorString)

\* The last handler call changed the stored detected faces of its photo.
FacesPersisted(op) ==
    /\ tag.last.op = op
    /\ tag.last.writes = 2
    /\ tag.last.facesOk

\* A matchFaces call made after the last handler call, whose two reads returned
\* the stored collections.
MatchedAfterwards ==
    /\ mq.called /\ ~mq.threw
    /\ mq.ops = tag.ops
    /\ mq.members = family
    /\ mq.docs = photoDocs

\* C23: in a matchFaces call the reference set of each member is the descriptors
\* of all detected faces assigned to it in the photos read when there is one,
\* and the member's own stored descriptors otherwise.  So in a match made after
\* addPersonManual has persisted an assignment, the descriptor of the assigned
\* face is a reference of that member, and in a match made after removePerson
\* has cleared the assignments, the descriptors of the cleared faces are not.
ReferencesAreAssignedFaces ==
    /\ (mq.called /\ ~mq.threw) =>
          \A i \in 1..Len(mq.members) :
              LET m == mq.members[i]
                  assigned == AssignedFaces(mq.docs, m.id)
                  refs == RefsOf(mq.refs, m.id)
              IN  IF assigned # {}
                  THEN /\ Len(refs) = Cardinality(assigned)
                       /\ Range(refs) = {AssignedDescriptor(it) : it \in assigned}
                  ELSE refs = getMemberDescriptors(m)
    /\ (MatchedAfterwards /\ FacesPersisted("addPersonManual")) =>
          LET pre == tag.last.pre[1]
              u == FirstUnassigned(pre.detectedFaces)
          IN  FromJson(pre.detectedFaces[u].descriptorString)
                  \in Range(RefsOf(mq.refs, tag.last.arg))
    /\ (MatchedAfterwards /\ FacesPersisted("removePerson")) =>
          \A it \in AssignedFaces({tag.last.pre[1]}, tag.last.arg) :
              AssignedDescriptor(it) \notin Range(RefsOf(mq.refs, tag.last.arg))

\* A match after addPersonManual gave Bob, who has no stored descriptor, a face.
ReferencesAfterAssignmentWitness ==
    /\ MatchedAfterwards
    /\ FacesPersisted("addPersonManual")
    /\ tag.last.arg = "m2"
    /\ RefsOf(mq.refs, "m2") # <<>>
    /\ RefsOf(mq.refs, "m1") # getMemberDescriptors(family[1])

\* A match after removePerson cleared a face of Ann fell back to Ann's stored
\* descriptor.
ReferencesAfterRemovalWitness ==
    /\ MatchedAfterwards
    /\ FacesPersisted("removePerson")
    /\ tag.last.arg = "m1"
    /\ AssignedFaces({tag.last.pre[1]}, "m1") # {}
    /\ RefsOf(mq.refs, "m1") = getMemberDescriptors(family[1])

\* The same reference sets, for a match that would read the store as the tagger
\* handlers (openTagger, saveTagger, autoApplySuggestions) have left it.
ReferencesFromStore ==
    \A i \in 1..Len(family) :
        LET m == family[i]
            assigned == AssignedFaces(photoDocs, m.id)
            refs == RefsOf(LabeledDescriptors(family, photoDocs), m.id)
        IN  IF assigned # {}
            THEN /\ Len(refs) = Cardinality(assigned)
                 /\ Range(refs) = {AssignedDescriptor(it) : it \in assigned}
            ELSE refs = getMemberDescriptors(m)

(***************************************************************************)
(* Properties of the detected-face records under the tagging handlers      *)
(***************************************************************************)
\* What identifies the entries of a detectedFaces list: the face ids in order,
\* with their boxes and descriptors.
FaceIdentity(dfs) ==
    [i \in 1..Len(dfs) |->
        [id |-> dfs[i].id, box |-> dfs[i].box,
         descriptorString |-> dfs[i].descriptorString]]

\* C24 as stated: once a photo has a non-empty detectedFaces list, no step of a
\* tagging handler adds, removes or re-identifies its entries, in the store or
\* in the panel's list.
DetectedFacesKept ==
    [][/\ \A d \in photoDocs : \A e \in photoDocs' :
              (d.detectedFaces # <<>> /\ e.id = d.id) =>
                  FaceIdentity(e.detectedFaces) = FaceIdentity(d.detectedFaces)
       /\ \A i \in 1..Len(photos) : \A j \in 1..Len(photos') :
              (photos[i].detectedFaces # <<>> /\ photos'[j].id = photos[i].id) =>
                  FaceIdentity(photos'[j].detectedFaces)
                      = FaceIdentity(photos[i].detectedFaces)]_vars

(***************************************************************************)
(* Properties of openTagger as a reader of assignments                     *)
(***************************************************************************)
\* The step is the end of an openTagger call.
OpenTaggerStep ==
    /\ tag'.ops = tag.ops + 1
    /\ tag'.last.op = "openTagger"

\* `after` carries the assignments of `before` and every suggestion `before`
\* had; a list that was empty gets faces without assignment.
AssignmentsKept(before, after) ==
    IF before = <<>>
    THEN \A i \in 1..Len(after) :
            /\ after[i].assignedMemberId = NoVal
            /\ after[i].assignedMemberName = NoVal
    ELSE /\ Len(after) = Len(before)
         /\ \A i \in 1..Len(before) :
              /\ after[i].assignedMemberId = before[i].assignedMemberId
              /\ after[i].assignedMemberName = before[i].assignedMemberName
              /\ before[i].suggestedMemberId # NoVal =>
                    after[i].suggestedMemberId = before[i].suggestedMemberId

\* C25 as stated: openTagger never sets or changes the assignment of a detected
\* face, never overwrites a suggestion and never changes faceTags, in the store
\* or in the panel's list.
OpenTaggerKeepsAssignments ==
    [][OpenTaggerStep =>
          /\ \A d \in photoDocs : \E e \in photoDocs' :
                /\ e.id = d.id
                /\ e.faceTags = d.faceTags
                /\ AssignmentsKept(d.detectedFaces, e.detectedFaces)
          /\ Len(photos') = Len(photos)
          /\ \A i \in 1..Len(photos) :
                /\ photos'[i].id = photos[i].id
                /\ photos'[i].faceTags = photos[i].faceTags
                /\ AssignmentsKept(photos[i].detectedFaces,
                                   photos'[i].detectedFaces)]_vars

\* What holds of a call that overlaps other handlers: the list it writes carries
\* the assignments and suggestions of the activePhoto it was called with.
OpenTaggerWritesWhatItRead ==
    [][(OpenTaggerStep /\ photoDocs' # photoDocs) =>
          \A e \in photoDocs' :
              e.id = tag'.last.pre[1].id =>
                  AssignmentsKept(tag'.last.pre[1].detectedFaces, e.detectedFaces)]_vars

(***************************************************************************)
(* Properties of a failed JPEG conversion                                  *)
(***************************************************************************)
\* The file takes the HEIC/HEIF branch.
IsHeic(file) ==
    \/ toLowerCase(file.type) \in {"image/heic", "image/heif"}
    \/ toLowerCase(file.name.ext) \in {".heic", ".heif"}

\* A step of the conversion of `file` fails: the HEIC/HEIF conversion, or for a
\* WebP file the decoding, the 2d context or the JPEG encoding.
ConversionFails(file, env) ==
    /\ IsWebpOrHeic(file)
    /\ IF IsHeic(file)
       THEN file.bytes.format # "heic" \/ ~env.heic2any \/ ~env.outBlob
       ELSE file.bytes.format \notin {"jpeg", "webp"}
               \/ ~env.decode \/ ~env.ctx \/ ~env.encode

\* C26: when the HEIC/HEIF conversion, the image decoding, the canvas context
\* or the JPEG encoding fails, convertToJpegIfNeeded does not throw and returns
\* the original file: same bytes, same name, same type.
ConvertFailureReturnsOriginal ==
    (call.fn = "convertToJpegIfNeeded" /\ ConversionFails(call.arg, call.envOk[1])) =>
        /\ ~call.threw
        /\ call.out = call.arg

\* A WebP file whose JPEG encoding failed came back as it was.
ConvertFailureWitness ==
    /\ call.fn = "convertToJpegIfNeeded"
    /\ call.arg.bytes.format = "webp"
    /\ call.arg.name.ext = ".webp"
    /\ ~IsHeic(call.arg)
    /\ ~call.envOk[1].encode
    /\ call.out = call.arg

\* Without a failure the file is converted.
ConvertSuccessConverts ==
    (/\ call.fn = "convertToJpegIfNeeded"
     /\ IsWebpOrHeic(call.arg)
     /\ ~ConversionFails(call.arg, call.envOk[1])) =>
        /\ ~call.threw
        /\ call.out.type = "image/jpeg"
        /\ call.out.bytes.format = "jpeg"

(***************************************************************************)
(* Properties of the panel's list across a change of country               *)
(***************************************************************************)
\* No getPhotosForCountry call and no upload batch is in flight.
PanelQuiet == loads = {} /\ up.pc \in {"idle", "done"}

\* C27 as stated: once every pending load and upload has completed, every photo
\* of the panel's list has the country code of the displayed trip.
PanelShowsDisplayedCountry ==
    (PanelQuiet /\ trip # Null) =>
        \A i \in 1..Len(photos) : photos[i].countryIso = trip

(***************************************************************************)
(* Properties of the map previews under uploads and deletions              *)
(***************************************************************************)
ExistingPhotos(c) == {d \in photoDocs : d.countryIso = c}

LatestOf(S) == CHOOSE d \in S : \A e \in S : e.createdAt <= d.createdAt

\* Nothing is in flight: no upload batch, no deletion, no refresh.
MapQuiet ==
    /\ up.pc \in {"idle", "done"}
    /\ del.pc = "idle"
    /\ previews.pc = "done"

\* C28 as stated: after uploads and deletions that all succeeded, the count and
\* the preview of each country are the number of its existing photos and the
\* url of the latest-created one, and a country without photos has no entry.
MapShowsExistingPhotos ==
    (MapQuiet /\ alerts = 0) =>
        \A c \in Countries :
            IF ExistingPhotos(c) = {}
            THEN CodeChars(c) \notin DOMAIN previews.byIso
            ELSE /\ CodeChars(c) \in DOMAIN previews.byIso
                 /\ previews.byIso[CodeChars(c)].count = Cardinality(ExistingPhotos(c))
                 /\ previews.byIso[CodeChars(c)].url = LatestOf(ExistingPhotos(c)).id

\* What holds: with the mount refresh over and no deletion made, the map shows
\* the uploaded photos of each country.
MapShowsUploadedPhotos ==
    (MapQuiet /\ alerts = 0 /\ del.n = 0 /\ nextId = 1 + Cardinality(photoDocs)) =>
        \A c \in Countries :
            ExistingPhotos(c) # {} =>
                /\ CodeChars(c) \in DOMAIN previews.byIso
                /\ previews.byIso[CodeChars(c)].count = Cardinality(ExistingPhotos(c))
                /\ previews.byIso[CodeChars(c)].url = LatestOf(ExistingPhotos(c)).id

(***************************************************************************)
(* Properties of the people saveTagger creates                             *)
(***************************************************************************)
\* saveTagger has created its people and both of its writes succeeded.
SaveTaggerSaved ==
    /\ tag.last.op = "saveTagger" /\ tag.last.writes = 2
    /\ tag.last.tagsOk /\ tag.last.facesOk

\* The person created for the k-th row of NewOnes(rows) in the last saveTagger.
CreatedFor(k) == family[tag.last.people + k]

\* The photo of the last saveTagger as the store holds it.
SavedDoc == StoredDoc(tag.last.pre[1].id)[1]

\* C29 as stated: for a row whose selection is "new" with a non-empty name,
\* saveTagger creates one person with the trimmed name and, in the same save,
\* writes a face tag with the new id and assigns the face of that row to it.
NewPersonIsTagged ==
    (SaveTaggerSaved /\ StoredDoc(tag.last.pre[1].id) # <<>>) =>
        LET new == NewOnes(tag.last.rows)
        IN /\ Len(family) = tag.last.people + Len(new)
           /\ \A k \in 1..Len(new) :
                 /\ CreatedFor(k).name = TrimName(new[k].newName)
                 /\ \E i \in 1..Len(SavedDoc.faceTags) :
                       SavedDoc.faceTags[i].memberId = CreatedFor(k).id
                 /\ \E i \in 1..Len(SavedDoc.detectedFaces) :
                       /\ SavedDoc.detectedFaces[i].id = new[k].faceId
                       /\ SavedDoc.detectedFaces[i].assignedMemberId = CreatedFor(k).id

\* What holds: the person is created, once and with the trimmed name.
NewPersonIsCreated ==
    tag.last.op = "saveTagger" /\ tag.last.writes > 0 =>
        LET new == NewOnes(tag.last.rows)
        IN /\ Len(family) = tag.last.people + Len(new)
           /\ \A k \in 1..Len(new) :
                 /\ CreatedFor(k).name = TrimName(new[k].newName)
                 /\ CreatedFor(k).id \notin {family[j].id : j \in 1..tag.last.people}

NewPersonIsCreatedWitness ==
    /\ SaveTaggerSaved
    /\ NewOnes(tag.last.rows) # <<>>

(***************************************************************************)
(* Properties of the face tags of one photo                                *)
(***************************************************************************)
OneTagPerMember(tags) ==
    \A i, j \in 1..Len(tags) : tags[i].memberId = tags[j].memberId => i = j

\* C30 as stated: in every persisted photo, after upload and after any sequence
\* of autoApplySuggestions, saveTagger, addPersonManual and removePerson, the
\* faceTags list holds at most one entry per memberId.
FaceTagsOnePerMember == \A d \in photoDocs : OneTagPerMember(d.faceTags)

\* What holds: a successful write of autoApplySuggestions or saveTagger leaves
\* one tag per member, whatever the photo held before.
MapWritesOnePerMember ==
    (tag.last.op \in {"autoApplySuggestions", "saveTagger"}
        /\ tag.last.writes > 0 /\ tag.last.tagsOk
        /\ StoredDoc(tag.last.pre[1].id) # <<>>)
        => OneTagPerMember(StoredDoc(tag.last.pre[1].id)[1].faceTags)

\* Such a write was made to a photo that held two tags of one member.
MapWritesWitness ==
    /\ tag.last.op \in {"autoApplySuggestions", "saveTagger"}
    /\ tag.last.writes > 0 /\ tag.last.tagsOk
    /\ ~OneTagPerMember(tag.last.pre[1].faceTags)

====
